---- MODULE Spec2Model ----
(***************************************************************************)
(* Voice-conversation pipeline of the Community Journalist application.    *)
(*                                                                         *)
(*   SentenceBuffer (src/src/lib/config.ts)      : SpecSB                  *)
(*   conversation page, client side                                        *)
(*   (src/src/app/conversation/page.tsx)         : Spec, SpecSeq           *)
(*                                                                         *)
(* Strings are sequences of one-character strings.  Positions are 1-based  *)
(* here and 0-based in the source: position p here is index p-1 there.     *)
(***************************************************************************)
EXTENDS Integers, Sequences, FiniteSets, TLC

(***************************************************************************)
(* Bounds of the model.                                                    *)
(***************************************************************************)
\* longest input (in characters) fed to one SentenceBuffer
MaxLen == 5
\* longest single fragment passed to addText
MaxFrag == 3
\* largest minSentenceLength a SentenceBuffer is constructed with
MaxMinLen == 3
\* calls of flush() on one SentenceBuffer
MaxFlushes == 2

(***************************************************************************)
(* Characters.                                                             *)
(***************************************************************************)
\* the characters inputs are drawn from: an upper-case letter, a lower-case
\* letter, a digit, a blank and two terminators
Alphabet == {"D", "r", "3", " ", ".", "!"}

LowerLetters ==
  {"a","b","c","d","e","f","g","h","i","j","k","l","m",
   "n","o","p","q","r","s","t","u","v","w","x","y","z"}

UpperLetters ==
  {"A","B","C","D","E","F","G","H","I","J","K","L","M",
   "N","O","P","Q","R","S","T","U","V","W","X","Y","Z"}

Digits == {"0","1","2","3","4","5","6","7","8","9"}

\* String.prototype.toLowerCase on one character
ToLowerChar(c) ==
  CASE c = "A" -> "a"
    [] c = "B" -> "b"
    [] c = "C" -> "c"
    [] c = "D" -> "d"
    [] c = "E" -> "e"
    [] c = "F" -> "f"
    [] c = "G" -> "g"
    [] c = "H" -> "h"
    [] c = "I" -> "i"
    [] c = "J" -> "j"
    [] c = "K" -> "k"
    [] c = "L" -> "l"
    [] c = "M" -> "m"
    [] c = "N" -> "n"
    [] c = "O" -> "o"
    [] c = "P" -> "p"
    [] c = "Q" -> "q"
    [] c = "R" -> "r"
    [] c = "S" -> "s"
    [] c = "T" -> "t"
    [] c = "U" -> "u"
    [] c = "V" -> "v"
    [] c = "W" -> "w"
    [] c = "X" -> "x"
    [] c = "Y" -> "y"
    [] c = "Z" -> "z"
    [] OTHER -> c

ToLower(s) == [i \in DOMAIN s |-> ToLowerChar(s[i])]

\* what trim() and trimStart() remove
IsSpace(c) == c \in {" ", "\n", "\t"}

\* /^[a-z]/
IsLowerCase(c) == c \in LowerLetters

\* /[a-zA-Z.]/
IsWordChar(c) == c \in LowerLetters \cup UpperLetters \cup {"."}

\* /\d/
IsDigit(c) == c \in Digits

\* ABBREVIATIONS
ABBREVIATIONS ==
  { <<"m","r">>, <<"m","r","s">>, <<"m","s">>, <<"d","r">>,
    <<"p","r","o","f">>, <<"s","r">>, <<"j","r">>, <<"v","s">>,
    <<"e","t","c">>, <<"i","n","c">>, <<"l","t","d">>, <<"c","o">>,
    <<"s","t">>, <<"a","v","e">>, <<"b","l","v","d">>, <<"r","d">>,
    <<"a","p","t">>, <<"n","o">>, <<"v","o","l">>, <<"r","e","v">>,
    <<"g","e","n">>, <<"c","o","l">>, <<"l","t">>,
    <<"s","g","t">>, <<"c","a","p","t">>, <<"c","m","d","r">>,
    <<"a","d","m">>, <<"g","o","v">>, <<"s","e","n">>, <<"r","e","p">>,
    <<"h","o","n">>, <<"p","r","e","s">>,
    <<"i",".","e">>, <<"e",".","g">>, <<"c","f">>, <<"a","l">>, <<"e","t">> }

(***************************************************************************)
(* String helpers.                                                         *)
(***************************************************************************)
Max(a, b) == IF a >= b THEN a ELSE b
Min(a, b) == IF a <= b THEN a ELSE b

\* s.slice(from - 1) : the part of s from position from on
Tail_(s, from) == SubSeq(s, from, Len(s))

RECURSIVE TrimStartN(_)
\* number of leading white-space characters of s
TrimStartN(s) ==
  IF s # <<>> /\ IsSpace(s[1]) THEN 1 + TrimStartN(Tail(s)) ELSE 0

RECURSIVE TrimEndN(_)
\* number of trailing white-space characters of s
TrimEndN(s) ==
  IF s # <<>> /\ IsSpace(s[Len(s)])
    THEN 1 + TrimEndN(SubSeq(s, 1, Len(s) - 1))
    ELSE 0

\* String.prototype.trimStart
TrimStart(s) == SubSeq(s, TrimStartN(s) + 1, Len(s))

\* String.prototype.trim
Trim(s) ==
  LET t == TrimStart(s) IN SubSeq(t, 1, Len(t) - TrimEndN(t))

\* slice.includes('...')
IncludesEllipsis(s) ==
  \E k \in 1..(Len(s) - 2) : s[k] = "." /\ s[k+1] = "." /\ s[k+2] = "."

(***************************************************************************)
(* SentenceBuffer.  The buffer is kept as a sequence of <<character,       *)
(* position>> pairs: the position is the place of the character in the     *)
(* input received so far (0 for a join blank the buffer inserted itself).  *)
(* The code reads only the characters, Chars(buffer).                      *)
(***************************************************************************)
Chars(t) == [i \in DOMAIN t |-> t[i][1]]

\* isAbbreviation(pos)
RECURSIVE WordStart(_, _)
WordStart(buffer, i) ==
  IF i >= 1 /\ IsWordChar(buffer[i]) THEN WordStart(buffer, i - 1) ELSE i + 1

IsAbbreviation(buffer, pos) ==
  LET wordStart == WordStart(buffer, pos - 1)
      word == ToLower(SubSeq(buffer, wordStart, pos - 1))
  IN  word \in ABBREVIATIONS

\* isDecimalNumber(pos)
IsDecimalNumber(buffer, pos) ==
  /\ pos > 1
  /\ pos < Len(buffer)
  /\ IsDigit(buffer[pos - 1])
  /\ IsDigit(buffer[pos + 1])

\* isEllipsis(pos)
IsEllipsis(buffer, pos) ==
  IncludesEllipsis(SubSeq(buffer, Max(1, pos - 2), Min(Len(buffer), pos + 2)))

\* a faulty variant of IsValidSentenceEnd: the lower-case test is missing
IsValidSentenceEndAnyCase(buffer, pos) ==
  LET char == buffer[pos]
      after == Tail_(buffer, pos + 1)
  IN  /\ ~(Len(after) < 2 /\ Len(after) > 0)
      /\ (char = "." =>
            /\ ~IsAbbreviation(buffer, pos)
            /\ ~IsDecimalNumber(buffer, pos)
            /\ ~IsEllipsis(buffer, pos))

\* isValidSentenceEnd(pos)
IsValidSentenceEnd(buffer, pos) ==
  LET char == buffer[pos]
      after == Tail_(buffer, pos + 1)
      afterTrimmed == TrimStart(after)
  IN  /\ ~(Len(after) < 2 /\ Len(after) > 0)
      /\ ~(Len(after) >= 2 /\ afterTrimmed # <<>> /\ IsLowerCase(afterTrimmed[1]))
      /\ (char = "." =>
            /\ ~IsAbbreviation(buffer, pos)
            /\ ~IsDecimalNumber(buffer, pos)
            /\ ~IsEllipsis(buffer, pos))

\* findSentenceEnd(): the first valid end, 0 when there is none (-1 in the source)
FindSentenceEnd(buffer) ==
  LET ends == { i \in 1..Len(buffer) :
                  /\ buffer[i] \in {".", "!", "?"}
                  /\ IsValidSentenceEnd(buffer, i) }
  IN  IF ends = {} THEN 0 ELSE CHOOSE i \in ends : \A j \in ends : i <= j

\* the tagged counterpart of s.trim(): the same characters dropped at both ends
TrimT(t) ==
  LET a == TrimStartN(Chars(t))
      u == SubSeq(t, a + 1, Len(t))
  IN  SubSeq(u, 1, Len(u) - TrimEndN(Chars(u)))

\* a faulty variant of PutBack: the short sentence is dropped instead of kept
PutBackDropped(sentence, rest) == rest

\* this.buffer = sentence + this.buffer : a short first sentence is kept
PutBack(sentence, rest) == sentence \o rest

RECURSIVE ExtractLoopNoMerge(_, _, _)
\* a faulty variant of ExtractLoop: a short sentence that follows an emitted
\* one is emitted on its own instead of being appended to it
ExtractLoopNoMerge(sentences, buffer, minLen) ==
  LET sentenceEnd == FindSentenceEnd(Chars(buffer)) IN
  IF sentenceEnd = 0
    THEN [sentences |-> sentences, buffer |-> buffer]
    ELSE
      LET sentence == TrimT(SubSeq(buffer, 1, sentenceEnd))
          rest == Tail_(buffer, sentenceEnd + 1)
      IN  IF Len(sentence) >= minLen \/ Len(sentences) > 0
            THEN ExtractLoopNoMerge(Append(sentences, sentence), rest, minLen)
          ELSE [sentences |-> sentences, buffer |-> PutBack(sentence, rest)]

RECURSIVE ExtractLoopAnyLength(_, _, _)
\* a faulty variant of ExtractLoop: the length test is missing, every closed
\* sentence is pushed
ExtractLoopAnyLength(sentences, buffer, minLen) ==
  LET sentenceEnd == FindSentenceEnd(Chars(buffer)) IN
  IF sentenceEnd = 0
    THEN [sentences |-> sentences, buffer |-> buffer]
    ELSE ExtractLoopAnyLength(
           Append(sentences, TrimT(SubSeq(buffer, 1, sentenceEnd))),
           Tail_(buffer, sentenceEnd + 1), minLen)

RECURSIVE ExtractLoop(_, _, _)
\* the while (true) loop of extractSentences(): the sentences array and the buffer
ExtractLoop(sentences, buffer, minLen) ==
  LET sentenceEnd == FindSentenceEnd(Chars(buffer)) IN
  IF sentenceEnd = 0
    THEN [sentences |-> sentences, buffer |-> buffer]
    ELSE
      LET sentence == TrimT(SubSeq(buffer, 1, sentenceEnd))
          rest == Tail_(buffer, sentenceEnd + 1)
      IN  IF Len(sentence) >= minLen
            THEN ExtractLoop(Append(sentences, sentence), rest, minLen)
          ELSE IF Len(sentences) > 0
            THEN ExtractLoop(
                   [sentences EXCEPT ![Len(sentences)] = @ \o <<<<" ", 0>>>> \o sentence],
                   rest, minLen)
          ELSE [sentences |-> sentences, buffer |-> PutBack(sentence, rest)]

\* extractSentences()
ExtractSentences(buffer, minLen) == ExtractLoop(<<>>, buffer, minLen)

\* a faulty variant of FlushResult: the buffer is returned untrimmed
FlushResultUntrimmed(buffer) == buffer

\* flush(): the returned sentence, <<>> for null
FlushResult(buffer) == TrimT(buffer)

VARIABLES
  state,              \* the React state `state`
  stateRef,           \* stateRef.current, synced by an effect after a render
  lag,                \* handlers run since stateRef went stale
  vad,                \* vadRef: "none" (null / destroyed), "paused", "started",
                      \* "speech" (started, the user is in mid-utterance)
  audioQueue,         \* audioQueueRef.current
  isPlaying,          \* isPlayingRef.current
  nextExpectedIndex,  \* nextExpectedIndexRef.current
  currentAudio,       \* currentAudioRef.current: -1 null, 0 the greeting's
                      \* Audio, l >= 1 the Audio created by drain loop l
  speechSynth,        \* speechSynthRef.current # null
  loops,              \* the suspended processAudioQueue invocations
  begin,              \* where handleBeginConversation is suspended
  greeting,           \* greetingDataRef.current: "none", "audio", "text"
  turns,              \* the sendAudio invocations and their response streams
  nTurns,             \* sendAudio invocations so far
  graceTimers,        \* pending setTimeout(() => setState("listening"), 300)
  ends,               \* clicks on End Conversation so far
  endPending,         \* fetches of /api/conversation/end in flight
  observe,            \* the play log is being kept
  playLog             \* the items whose playback was started, in order

clientVars == <<state, stateRef, lag, vad, audioQueue, isPlaying, nextExpectedIndex,
                currentAudio, speechSynth, loops, begin, greeting, turns, nTurns,
                graceTimers, ends, endPending, observe, playLog>>

VARIABLES
  minSentenceLength,  \* SentenceBuffer.minSentenceLength
  sbBuffer,           \* SentenceBuffer.buffer (tagged)
  sbInput,            \* every character passed to addText so far
  sbSentences,        \* the sentences addText has returned so far, in order
  sbLastCall,         \* how many sentences the last addText call returned
  sbFlushed,          \* flush() has been called
  sbFlushResult,      \* what the first flush() returned (<<>> for null)
  sbFlushes,          \* how many times flush() has been called
  sbLastFlush         \* what the latest flush() returned (<<>> for null)

sbVars == <<minSentenceLength, sbBuffer, sbInput, sbSentences, sbLastCall,
            sbFlushed, sbFlushResult, sbFlushes, sbLastFlush>>

VARIABLES
  srvPc,              \* where the POST handler of the message route stands
  srvEvents,          \* the SSE events written to the response stream, in order
  sentenceIndex,      \* sentenceIndex of the handler
  srvBatch,           \* the sentences of the for-of loop not yet finished,
                      \* the one being synthesised first
  srvRequests,        \* POST requests received so far
  srvSaved            \* messages the current request has persisted

\* the handler of one message request and its response stream
streamVars == <<srvPc, srvEvents, sentenceIndex, srvBatch, srvRequests, srvSaved>>

VARIABLES
  convStatus,         \* conversation.status in the database
  convSummary,        \* conversation.summary: 0 for null, else the end request
                      \* whose summary it holds
  userSummary,        \* user.conversationSummary: the summaries it is made of
  convReqs            \* the message and end requests for the conversation

convVars == <<convStatus, convSummary, userSummary, convReqs>>

srvVars == <<streamVars, convVars>>

vars == <<clientVars, sbVars, srvVars>>

\* message and end requests for the conversation, in all
MaxConvReqs == 3
\* the rolling summary keeps its last 2000 characters: in the model, its last
\* MaxRolling summaries
MaxRolling == 2

ConvReqIds == 1..MaxConvReqs

\* a request that has not been sent yet
NoConvReq ==
  [kind |-> "none", pc |-> "none", late |-> FALSE, events |-> <<>>, saved |-> 0,
   snapshot |-> <<>>, response |-> "none"]

\* the conversation as the start route created it (status: "ACTIVE"), no
\* request for it yet
IdleConv ==
  /\ convStatus = "ACTIVE"
  /\ convSummary = 0
  /\ userSummary = <<>>
  /\ convReqs = [r \in ConvReqIds |-> NoConvReq]

\* no request has reached the message route
IdleStream ==
  /\ srvPc = "none"
  /\ srvEvents = <<>>
  /\ sentenceIndex = 0
  /\ srvBatch = <<>>
  /\ srvRequests = 0
  /\ srvSaved = 0

IdleServer == IdleStream /\ IdleConv

RECURSIVE Strings(_)
\* the strings over Alphabet of length n
Strings(n) ==
  IF n = 0 THEN {<<>>}
  ELSE { Append(s, c) : s \in Strings(n - 1), c \in Alphabet }

Fragments == UNION { Strings(n) : n \in 0..MaxFrag }

\* addText(text)
AddText(text) ==
  /\ ~sbFlushed
  /\ Len(sbInput) + Len(text) <= MaxLen
  /\ LET tagged == [i \in 1..Len(text) |-> <<text[i], Len(sbInput) + i>>]
         r == ExtractSentences(sbBuffer \o tagged, minSentenceLength)
     IN  /\ sbBuffer' = r.buffer
         /\ sbSentences' = sbSentences \o r.sentences
         /\ sbLastCall' = Len(r.sentences)
  /\ sbInput' = sbInput \o text
  /\ UNCHANGED <<minSentenceLength, sbFlushed, sbFlushResult, sbFlushes,
                 sbLastFlush, clientVars, srvVars>>

\* flush(), also when called again
Flush ==
  /\ sbFlushes < MaxFlushes
  /\ sbLastFlush' = FlushResult(sbBuffer)
  /\ sbFlushResult' = IF sbFlushed THEN sbFlushResult ELSE FlushResult(sbBuffer)
  /\ sbFlushes' = sbFlushes + 1
  /\ sbBuffer' = <<>>
  /\ sbFlushed' = TRUE
  /\ UNCHANGED <<minSentenceLength, sbInput, sbSentences, sbLastCall, clientVars,
                 srvVars>>

NextSB ==
  \/ \E text \in Fragments : AddText(text)
  \/ Flush


(***************************************************************************)
(* Properties of the SentenceBuffer.                                       *)
(***************************************************************************)
RECURSIVE Concat(_)
Concat(ss) == IF ss = <<>> THEN <<>> ELSE Head(ss) \o Concat(Tail(ss))

\* s without its white space
NoSpace(s) == SelectSeq(s, LAMBDA c : ~IsSpace(c))

\* the position in the input of the last character of an emitted sentence
EndPos(sentence) == sentence[Len(sentence)][2]

\* C9: at every point (after each addText and after the flush) the sentences
\* returned so far, then the flush result, then the buffer, spell the input
\* received so far once white space (the inserted join blanks included) is
\* ignored: nothing is lost, duplicated or reordered.
C9_Reassembly ==
  NoSpace(Chars(Concat(sbSentences) \o sbFlushResult \o sbBuffer)) = NoSpace(sbInput)

\* C9 witness: a flushed buffer that returned a merged sentence (with a join
\* blank) from addText and a non-empty remainder from flush
C9_Witness ==
  /\ sbFlushed
  /\ sbFlushResult # <<>>
  /\ \E i \in DOMAIN sbSentences :
        \E k \in DOMAIN sbSentences[i] : sbSentences[i][k][2] = 0

\* a listed abbreviation stands, as a whole word, right before position p
AbbreviationPeriod(input, p) ==
  /\ input[p] = "."
  /\ \E a \in ABBREVIATIONS :
        /\ Len(a) < p
        /\ ToLower(SubSeq(input, p - Len(a), p - 1)) = a
        /\ (p - Len(a) > 1 =>
              input[p - Len(a) - 1] \notin LowerLetters \cup UpperLetters)

\* a digit stands right before and right after the period at position p
DecimalPeriod(input, p) ==
  /\ input[p] = "."
  /\ p > 1 /\ p < Len(input)
  /\ IsDigit(input[p - 1]) /\ IsDigit(input[p + 1])

\* the period at position p is one of three consecutive periods
EllipsisPeriod(input, p) ==
  /\ input[p] = "."
  /\ \E k \in (p - 2)..p :
        /\ k >= 1 /\ k + 2 <= Len(input)
        /\ input[k] = "." /\ input[k + 1] = "." /\ input[k + 2] = "."

\* C10: however the input is cut into fragments, no sentence returned by
\* addText ends at the period of a listed abbreviation, at a period between
\* two digits of the input, or at a period of an ellipsis.
C10_NoSplitInside ==
  \A i \in DOMAIN sbSentences :
    LET p == EndPos(sbSentences[i]) IN
      /\ ~AbbreviationPeriod(sbInput, p)
      /\ ~DecimalPeriod(sbInput, p)
      /\ ~EllipsisPeriod(sbInput, p)

RECURSIVE Pieces(_)
\* a returned sentence cut at the join blanks extractSentences inserted
Pieces(sentence) ==
  LET joins == { k \in DOMAIN sentence : sentence[k] = <<" ", 0>> } IN
  IF joins = {} THEN <<sentence>>
  ELSE LET k == CHOOSE j \in joins : \A i \in joins : j <= i
       IN  <<SubSeq(sentence, 1, k - 1)>> \o Pieces(Tail_(sentence, k + 1))

\* C12: every sentence addText returns starts with a closed sentence of at
\* least minSentenceLength characters, followed (one blank each) by the
\* closed sentences shorter than that which came after it in the same call;
\* a call that returned sentences left no closed sentence in the buffer; and
\* when a call returned nothing although a sentence is closed, that sentence
\* is shorter than minSentenceLength and stands, trimmed, at the front of
\* the buffer.
C12_ShortSentences ==
  /\ \A i \in DOMAIN sbSentences :
       LET ps == Pieces(sbSentences[i]) IN
         /\ Len(ps[1]) >= minSentenceLength
         /\ \A k \in 2..Len(ps) : Len(ps[k]) >= 1 /\ Len(ps[k]) < minSentenceLength
  /\ (~sbFlushed /\ sbLastCall > 0) => FindSentenceEnd(Chars(sbBuffer)) = 0
  /\ (~sbFlushed /\ sbLastCall = 0 /\ FindSentenceEnd(Chars(sbBuffer)) # 0) =>
       LET e == FindSentenceEnd(Chars(sbBuffer)) IN
         /\ Len(TrimT(SubSeq(sbBuffer, 1, e))) < minSentenceLength
         /\ ~IsSpace(sbBuffer[1][1])

\* C12 witness: an earlier call returned a sentence with a short one appended
\* and the latest call deferred a short sentence
C12_Witness ==
  /\ ~sbFlushed
  /\ \E i \in DOMAIN sbSentences : Len(Pieces(sbSentences[i])) >= 2
  /\ sbLastCall = 0
  /\ FindSentenceEnd(Chars(sbBuffer)) # 0

\* C13: a short sentence stays deferred at the front of the buffer only
\* while the text after it holds no further valid boundary; once there is
\* one, addText has returned the deferred text merged with what follows
C13_DeferredUntilNextBoundary ==
  LET e == FindSentenceEnd(Chars(sbBuffer)) IN
    (~sbFlushed /\ e # 0) =>
      FindSentenceEnd(Chars(Tail_(sbBuffer, e + 1))) = 0

\* C14: when addText returns sentences, the terminator that closed the last
\* of them has at least 2 characters after it in the buffer (what the call
\* leaves in the buffer is the text after that terminator)
C14_WaitsForTwo ==
  (~sbFlushed /\ sbLastCall > 0) => Len(sbBuffer) >= 2

\* C15: a call of flush returns the buffer without its leading and trailing
\* white space, whatever its length; it returns null exactly when the buffer
\* holds nothing but white space; it leaves the buffer empty; and a flush
\* that follows a flush returns null.
C15_Flush ==
  [][ (sbFlushes' = sbFlushes + 1) =>
        LET b == Chars(sbBuffer)
            r == Chars(sbLastFlush')
        IN  /\ sbBuffer' = <<>>
            /\ (r = <<>>) <=> (\A k \in DOMAIN b : IsSpace(b[k]))
            /\ r # <<>> =>
                 /\ ~IsSpace(r[1])
                 /\ ~IsSpace(r[Len(r)])
                 /\ \E a \in 0..Len(b) :
                      /\ a + Len(r) <= Len(b)
                      /\ SubSeq(b, a + 1, a + Len(r)) = r
                      /\ \A k \in DOMAIN b :
                           (k <= a \/ k > a + Len(r)) => IsSpace(b[k])
            /\ sbFlushes >= 1 => r = <<>> ]_vars

\* C15 witness: the first flush returned a sentence shorter than
\* minSentenceLength, the second one null
C15_Witness ==
  /\ sbFlushes = 2
  /\ sbFlushResult # <<>>
  /\ Len(sbFlushResult) < minSentenceLength
  /\ sbLastFlush = <<>>

\* the sentences the latest addText call returned
LastReturned ==
  SubSeq(sbSentences, Len(sbSentences) - sbLastCall + 1, Len(sbSentences))

\* the input received so far after position p, without leading white space:
\* what stood in the buffer after a terminator at p when the call ran
AfterInInput(p) == TrimStart(Tail_(sbInput, p + 1))

\* C32: no closed sentence (a returned sentence, or a short one appended to
\* it) of the latest addText call ends at a terminator whose next non-space
\* character, in the text received up to that call, is a lower-case letter
C32_NoLowercaseAfter ==
  \A i \in DOMAIN LastReturned :
    LET ps == Pieces(LastReturned[i]) IN
      \A k \in DOMAIN ps :
        LET after == AfterInInput(EndPos(ps[k])) IN
          after # <<>> => ~IsLowerCase(after[1])

\* C32 witness: the buffer once held a terminator followed by a lower-case
\* letter, and the sentence returned runs on past it to a later terminator
C32_Witness ==
  /\ sbLastCall = 1
  /\ \E k \in 1..(Len(LastReturned[1]) - 1) :
       /\ LastReturned[1][k][1] \in {".", "!"}
       /\ LET after == TrimStart(Chars(Tail_(LastReturned[1], k + 1))) IN
            after # <<>> /\ IsLowerCase(after[1])

\* C37: every sentence addText has returned is at least minSentenceLength
\* characters long and ends with '.', '!' or '?'
C37_ReturnedSentences ==
  \A i \in DOMAIN sbSentences :
    LET sentence == Chars(sbSentences[i]) IN
      /\ Len(sentence) >= minSentenceLength
      /\ sentence[Len(sentence)] \in {".", "!", "?"}

\* C37 witness: addText returned a sentence, and flush then returned a
\* remainder shorter than minSentenceLength that ends without a terminator
C37_Witness ==
  /\ sbSentences # <<>>
  /\ sbFlushed
  /\ sbFlushResult # <<>>
  /\ Len(sbFlushResult) < minSentenceLength
  /\ sbFlushResult[Len(sbFlushResult)][1] \notin {".", "!", "?"}

(***************************************************************************)
(* The conversation page (client).                                         *)
(*                                                                         *)
(* Every action is one run of the event loop: a handler, or the resumption *)
(* of an async function, from the event that wakes it to the next await.   *)
(* processAudioQueue is called without await, so an enqueueAudio runs the  *)
(* drain loop up to its first await inside the same action.                *)
(***************************************************************************)
\* drain loops (processAudioQueue invocations) that can be suspended at once
MaxLoops == 2
\* sendAudio invocations (turns) of one conversation
MaxTurns == 2
\* sentences (audio / tts_error events) of one response
MaxIdx == 1
\* sentences of the response whose items arrive in any order (SpecSeq)
MaxSeq == 3
\* barge-in grace timers that can be pending at once
MaxTimers == 1
\* clicks on End Conversation
MaxEnds == 1
\* handlers that can run between a setState and the effect that copies the
\* new state into stateRef
MaxLag == 1

LoopIds == 1..MaxLoops
TurnIds == 1..MaxTurns

NoItem == [index |-> -1, turn |-> 0, useFallback |-> FALSE]
NoLoop == [pc |-> "none", item |-> NoItem]
NoTurn == [pc |-> "none", got |-> "start", sent |-> {}, total |-> 0, stopped |-> FALSE,
           failed |-> FALSE]

(***************************************************************************)
(* The refs and state that handlers write, gathered in one record so that  *)
(* the calls of a handler compose.                                         *)
(***************************************************************************)
World ==
  [state |-> state, vad |-> vad, q |-> audioQueue, playing |-> isPlaying,
   nei |-> nextExpectedIndex, cur |-> currentAudio, synth |-> speechSynth,
   loops |-> loops, begin |-> begin, started |-> <<>>]

Commit(w) ==
  /\ stateRef # state => lag < MaxLag
  /\ lag' = IF stateRef = w.state THEN 0
            ELSE IF stateRef # state THEN lag + 1 ELSE 0
  /\ state' = w.state
  /\ vad' = w.vad
  /\ audioQueue' = w.q
  /\ isPlaying' = w.playing
  /\ nextExpectedIndex' = w.nei
  /\ currentAudio' = w.cur
  /\ speechSynth' = w.synth
  /\ loops' = w.loops
  /\ begin' = w.begin
  /\ playLog' = IF observe THEN playLog \o w.started ELSE playLog

\* owner 0 is handleBeginConversation, owner l >= 1 is drain loop l
SetPc(w, owner, pc) ==
  IF owner = 0 THEN [w EXCEPT !.begin = pc]
  ELSE [w EXCEPT !.loops[owner].pc = pc]

\* vadRef.current.start()
VadStart(v) == IF v = "paused" THEN "started" ELSE v

\* vadRef.current.pause()
VadPause(v) == IF v = "none" THEN "none" ELSE "paused"

\* window.speechSynthesis.cancel(): the utterance being spoken falls silent;
\* its error (or end) event is delivered later
CancelSpeech(w) ==
  [w EXCEPT
     !.loops = [l \in LoopIds |->
                  IF w.loops[l].pc = "speech"
                    THEN [w.loops[l] EXCEPT !.pc = "cancelled"]
                    ELSE w.loops[l]],
     !.begin = IF w.begin = "speech" THEN "cancelled" ELSE w.begin]

\* the Audio element currentAudioRef points to is paused: it fires neither
\* ended nor error, so the promise awaiting it never settles
PauseCurrent(w) ==
  IF w.cur = -1 THEN w
  ELSE IF w.cur = 0
    THEN [w EXCEPT !.cur = -1,
                   !.begin = IF w.begin = "audio" THEN "done" ELSE w.begin]
  ELSE [w EXCEPT !.cur = -1,
                 !.loops[w.cur] =
                   IF w.loops[w.cur].pc = "audio" THEN NoLoop ELSE w.loops[w.cur]]

\* speakWithWebSpeechAPI(text), up to speechSynthesis.speak(utterance)
Speak(w, owner) ==
  [SetPc(CancelSpeech(w), owner, "speech") EXCEPT !.synth = TRUE]

\* a faulty variant of StopAudio: the queue is not cleared
StopAudioKeepQueue(w) ==
  LET a == PauseCurrent(w)
      b == IF a.synth THEN [CancelSpeech(a) EXCEPT !.synth = FALSE] ELSE a
  IN  [b EXCEPT !.playing = FALSE]

\* stopAudio()
StopAudio(w) ==
  LET a == PauseCurrent(w)
      b == IF a.synth THEN [CancelSpeech(a) EXCEPT !.synth = FALSE] ELSE a
  IN  [b EXCEPT !.q = <<>>, !.playing = FALSE]

\* a faulty variant of Cleanup: the VAD is left as it is
CleanupKeepsVad(w) ==
  LET a == PauseCurrent(w)
      b == [CancelSpeech(a) EXCEPT !.synth = FALSE]
  IN  [b EXCEPT !.q = <<>>, !.playing = FALSE]

\* cleanup()
Cleanup(w) ==
  LET a == PauseCurrent([w EXCEPT !.vad = "none"])
      b == [CancelSpeech(a) EXCEPT !.synth = FALSE]
  IN  [b EXCEPT !.q = <<>>, !.playing = FALSE]

\* playAudioItem(item), up to the first event it waits for
PlayAudioItem(w, l, item) ==
  LET a == [w EXCEPT !.loops[l].item = item, !.started = <<item>>] IN
  IF item.useFallback
    THEN Speak(a, l)
    ELSE [a EXCEPT !.loops[l].pc = "audio", !.cur = l]

\* audioQueueRef.current.findIndex(item => item.index === nextIndex): 0 for -1
FindIndex(q, nextIndex) ==
  LET hits == { i \in 1..Len(q) : q[i].index = nextIndex }
  IN  IF hits = {} THEN 0 ELSE CHOOSE i \in hits : \A j \in hits : i <= j

\* splice(itemIndex, 1)
Splice(q, i) == SubSeq(q, 1, i - 1) \o SubSeq(q, i + 1, Len(q))

\* a faulty variant of DrainStep: the first queued item is played whatever its index
DrainStepUnordered(w, l, ref) ==
  IF w.q = <<>>
    THEN LET a == [w EXCEPT !.playing = FALSE, !.loops[l] = NoLoop] IN
         IF ref = "ai_speaking"
           THEN [a EXCEPT !.state = "listening", !.vad = VadStart(a.vad)]
           ELSE a
    ELSE PlayAudioItem([w EXCEPT !.q = Tail(w.q), !.nei = w.nei + 1], l, Head(w.q))

\* a faulty variant of DrainStep: when the expected index is missing the first
\* queued item is played instead of waiting
DrainStepSkipAhead(w, l, ref) ==
  IF w.q = <<>>
    THEN LET a == [w EXCEPT !.playing = FALSE, !.loops[l] = NoLoop] IN
         IF ref = "ai_speaking"
           THEN [a EXCEPT !.state = "listening", !.vad = VadStart(a.vad)]
           ELSE a
    ELSE LET itemIndex == FindIndex(w.q, w.nei) IN
         IF itemIndex = 0
           THEN PlayAudioItem([w EXCEPT !.q = Tail(w.q), !.nei = Head(w.q).index + 1],
                              l, Head(w.q))
           ELSE PlayAudioItem(
                  [w EXCEPT !.q = Splice(w.q, itemIndex), !.nei = w.nei + 1],
                  l, w.q[itemIndex])

\* a faulty variant of DrainStep: nextExpectedIndex is not advanced
DrainStepNoAdvance(w, l, ref) ==
  IF w.q = <<>>
    THEN LET a == [w EXCEPT !.playing = FALSE, !.loops[l] = NoLoop] IN
         IF ref = "ai_speaking"
           THEN [a EXCEPT !.state = "listening", !.vad = VadStart(a.vad)]
           ELSE a
    ELSE LET itemIndex == FindIndex(w.q, w.nei) IN
         IF itemIndex = 0
           THEN [w EXCEPT !.loops[l] = [pc |-> "wait", item |-> NoItem]]
           ELSE PlayAudioItem([w EXCEPT !.q = Splice(w.q, itemIndex)], l, w.q[itemIndex])

\* processAudioQueue from the top of its while loop to its next await (or its
\* end), run by loop l; ref is stateRef.current
DrainStep(w, l, ref) ==
  IF w.q = <<>>
    THEN LET a == [w EXCEPT !.playing = FALSE, !.loops[l] = NoLoop] IN
         IF ref = "ai_speaking"
           THEN [a EXCEPT !.state = "listening", !.vad = VadStart(a.vad)]
           ELSE a
    ELSE LET itemIndex == FindIndex(w.q, w.nei) IN
         IF itemIndex = 0
           THEN [w EXCEPT !.loops[l] = [pc |-> "wait", item |-> NoItem]]
           ELSE PlayAudioItem(
                  [w EXCEPT !.q = Splice(w.q, itemIndex), !.nei = w.nei + 1],
                  l, w.q[itemIndex])

FreeLoops(w) == { l \in LoopIds : w.loops[l].pc = "none" }

\* the slot a new processAudioQueue invocation is modelled in
NewLoop(w) == CHOOSE l \in FreeLoops(w) : \A k \in FreeLoops(w) : l <= k

\* a faulty variant of ProcessAudioQueue: the isPlayingRef guard is missing
ProcessAudioQueueUnguarded(w, ref) ==
  IF FreeLoops(w) = {} THEN w
  ELSE DrainStep([w EXCEPT !.playing = TRUE], NewLoop(w), ref)

\* processAudioQueue(), called fresh
ProcessAudioQueue(w, ref) ==
  IF w.playing THEN w
  ELSE DrainStep([w EXCEPT !.playing = TRUE], NewLoop(w), ref)

\* enqueueAudio(item)
EnqueueAudio(w, item, ref) ==
  ProcessAudioQueue([w EXCEPT !.q = Append(w.q, item)], ref)

\* a new drain loop can be modelled (a slot is free) if the call starts one
CanEnqueue == isPlaying \/ FreeLoops(World) # {}

(***************************************************************************)
(* Initial state: the page has been rendered, its mount effect is fetching *)
(* the conversation.                                                       *)
(***************************************************************************)
InitClient ==
  /\ state = "loading"
  /\ stateRef = "loading"
  /\ lag = 0
  /\ vad = "none"
  /\ audioQueue = <<>>
  /\ isPlaying = FALSE
  /\ nextExpectedIndex = 0
  /\ currentAudio = -1
  /\ speechSynth = FALSE
  /\ loops = [l \in LoopIds |-> NoLoop]
  /\ begin = "mount"
  /\ greeting = "none"
  /\ turns = [t \in TurnIds |-> NoTurn]
  /\ nTurns = 0
  /\ graceTimers = 0
  /\ ends = 0
  /\ endPending = 0
  /\ observe = FALSE
  /\ playLog = <<>>

\* variables a handler does not write
Frame == UNCHANGED <<stateRef, greeting, observe, sbVars, srvVars>>

\* the turns in progress see a cancellation
MarkStopped(ts) ==
  [t \in TurnIds |->
     IF ts[t].pc \in {"fetch", "read", "wait"}
       THEN [ts[t] EXCEPT !.stopped = TRUE] ELSE ts[t]]

Finished(t) == [NoTurn EXCEPT !.pc = "done"]

\* sendAudio has returned through its catch block, which called setError
Failed(t) == [Finished(t) EXCEPT !.failed = TRUE]

(***************************************************************************)
(* Mount effect (fetchConversationData).                                   *)
(***************************************************************************)
MountReady(g) ==
  /\ begin = "mount"
  /\ greeting' = g
  /\ Commit([World EXCEPT !.vad = "paused", !.state = "ready", !.begin = "idle"])
  /\ UNCHANGED <<stateRef, turns, nTurns, graceTimers, ends, endPending, observe, sbVars, srvVars>>

MountFail(v) ==
  /\ begin = "mount"
  /\ Commit([World EXCEPT !.vad = v, !.state = "error", !.begin = "done"])
  /\ UNCHANGED <<turns, nTurns, graceTimers, ends, endPending>>
  /\ Frame

(***************************************************************************)
(* handleBeginConversation.                                                *)
(***************************************************************************)
BeginClick ==
  /\ state = "ready"
  /\ begin = "idle"
  /\ Commit([World EXCEPT !.state = "loading", !.begin = "init"])
  /\ UNCHANGED <<turns, nTurns, graceTimers, ends, endPending>>
  /\ Frame

\* a faulty variant of BeginInitOk: the VAD is started together with the greeting
BeginInitOkEarlyStart ==
  /\ begin = "init"
  /\ greeting' = "none"
  /\ LET a == [World EXCEPT !.vad = "started"] IN
     Commit(CASE greeting = "audio" ->
                   [a EXCEPT !.state = "ai_speaking", !.cur = 0, !.begin = "audio"]
              [] greeting = "text" ->
                   Speak([a EXCEPT !.state = "ai_speaking"], 0)
              [] OTHER ->
                   [a EXCEPT !.state = "listening", !.begin = "done"])
  /\ UNCHANGED <<turns, nTurns, graceTimers, ends, endPending, stateRef, observe, sbVars, srvVars>>

\* MicVAD.new resolved: vadRef set, paused, the greeting started
BeginInitOk ==
  /\ begin = "init"
  /\ greeting' = "none"
  /\ LET a == [World EXCEPT !.vad = "paused"] IN
     Commit(CASE greeting = "audio" ->
                   [a EXCEPT !.state = "ai_speaking", !.cur = 0, !.begin = "audio"]
              [] greeting = "text" ->
                   Speak([a EXCEPT !.state = "ai_speaking"], 0)
              [] OTHER ->
                   [a EXCEPT !.state = "listening", !.vad = "started", !.begin = "done"])
  /\ UNCHANGED <<turns, nTurns, graceTimers, ends, endPending, stateRef, observe, sbVars, srvVars>>

\* a faulty variant of BeginInitFail: the failure is swallowed and listening starts
BeginInitFailIgnored ==
  /\ begin = "init"
  /\ Commit([World EXCEPT !.state = "listening", !.vad = VadStart(vad),
                          !.begin = "failed"])
  /\ UNCHANGED <<turns, nTurns, graceTimers, ends, endPending>>
  /\ Frame

\* MicVAD.new (or the import) rejected, e.g. NotAllowedError
BeginInitFail ==
  /\ begin = "init"
  /\ Commit([World EXCEPT !.state = "error", !.begin = "failed"])
  /\ UNCHANGED <<turns, nTurns, graceTimers, ends, endPending>>
  /\ Frame

\* playAudio: audio.onended, then the rest of handleBeginConversation
GreetingAudioEnded ==
  /\ begin = "audio"
  /\ Commit([World EXCEPT !.cur = -1, !.state = "listening",
                          !.vad = VadStart(vad), !.begin = "done"])
  /\ UNCHANGED <<turns, nTurns, graceTimers, ends, endPending>>
  /\ Frame

\* playAudio: audio.onerror or a rejected audio.play(), with fallbackText
GreetingAudioError ==
  /\ begin = "audio"
  /\ Commit(Speak([World EXCEPT !.cur = -1], 0))
  /\ UNCHANGED <<turns, nTurns, graceTimers, ends, endPending>>
  /\ Frame

\* utterance.onend of the greeting (a cancelled one included, where the
\* browser reports a cancellation as an end)
GreetingSpeechEnded ==
  /\ begin \in {"speech", "cancelled"}
  /\ Commit([World EXCEPT !.synth = FALSE, !.state = "listening",
                          !.vad = VadStart(vad), !.begin = "done"])
  /\ UNCHANGED <<turns, nTurns, graceTimers, ends, endPending>>
  /\ Frame

\* utterance.onerror of the greeting: handleBeginConversation's catch
GreetingSpeechError ==
  /\ begin \in {"speech", "cancelled"}
  /\ Commit([World EXCEPT !.synth = FALSE, !.state = "error", !.begin = "done"])
  /\ UNCHANGED <<turns, nTurns, graceTimers, ends, endPending>>
  /\ Frame

(***************************************************************************)
(* The stateRef effect.                                                    *)
(***************************************************************************)
SyncStateRef ==
  /\ stateRef # state
  /\ stateRef' = state
  /\ lag' = 0
  /\ UNCHANGED <<state, vad, audioQueue, isPlaying, nextExpectedIndex,
                 currentAudio, speechSynth, loops, begin, greeting, turns, nTurns,
                 graceTimers, ends, endPending, observe, playLog, sbVars, srvVars>>

(***************************************************************************)
(* VAD callbacks.                                                          *)
(***************************************************************************)
\* onSpeechStart
SpeechStart ==
  /\ vad = "started"
  /\ IF stateRef = "ai_speaking"
       THEN /\ graceTimers < MaxTimers
            /\ Commit([StopAudio([World EXCEPT !.vad = "speech"])
                         EXCEPT !.state = "interrupted"])
            /\ graceTimers' = graceTimers + 1
            /\ turns' = MarkStopped(turns)
       ELSE /\ Commit([World EXCEPT !.vad = "speech"])
            /\ UNCHANGED <<graceTimers, turns>>
  /\ UNCHANGED <<nTurns, ends, endPending>>
  /\ Frame

\* setTimeout(() => setState("listening"), 300)
GraceTimerFire ==
  /\ graceTimers > 0
  /\ graceTimers' = graceTimers - 1
  /\ Commit([World EXCEPT !.state = "listening"])
  /\ UNCHANGED <<turns, nTurns, ends, endPending>>
  /\ Frame

\* a faulty variant of AcceptsSpeechEnd: speech-end is accepted in every state
AcceptsSpeechEndAlways(ref) == TRUE

\* onSpeechEnd's test of stateRef.current
AcceptsSpeechEnd(ref) == ref = "listening" \/ ref = "interrupted"

\* onSpeechEnd, with sendAudio up to its fetch
SpeechEnd ==
  /\ vad = "speech"
  /\ IF AcceptsSpeechEnd(stateRef)
       THEN /\ nTurns < MaxTurns
            /\ Commit([World EXCEPT !.vad = "started", !.state = "processing",
                                    !.nei = 0, !.q = <<>>])
            /\ nTurns' = nTurns + 1
            /\ turns' = [turns EXCEPT ![nTurns + 1] = [NoTurn EXCEPT !.pc = "fetch"]]
       ELSE /\ Commit([World EXCEPT !.vad = "started"])
            /\ UNCHANGED <<nTurns, turns>>
  /\ UNCHANGED <<graceTimers, ends, endPending>>
  /\ Frame

\* onVADMisfire
Misfire ==
  /\ vad = "speech"
  /\ Commit([World EXCEPT !.vad = "started"])
  /\ UNCHANGED <<turns, nTurns, graceTimers, ends, endPending>>
  /\ Frame

(***************************************************************************)
(* sendAudio: one invocation per turn.  The response stream is read one    *)
(* event per read; the server writes transcript, then for each sentence in *)
(* index order its audio or tts_error event, then complete, or an error    *)
(* event in place of any of them.  The text and complete events change     *)
(* only the displayed transcript, which is not modelled.                   *)
(***************************************************************************)
Item(t, i, fb) == [index |-> i, turn |-> t, useFallback |-> fb]

\* the catch block, and the code after waitForAudio: back to listening
BackToListening(w) == [w EXCEPT !.state = "listening", !.vad = VadStart(w.vad)]

\* fetch resolved with an ok response: the VAD is paused, the reader obtained
FetchOk(t) ==
  /\ turns[t].pc = "fetch"
  /\ turns' = [turns EXCEPT ![t].pc = "read"]
  /\ Commit([World EXCEPT !.vad = VadPause(vad)])
  /\ UNCHANGED <<nTurns, graceTimers, ends, endPending>>
  /\ Frame

\* fetch rejected, or the response is not ok: the catch block
FetchFail(t) ==
  /\ turns[t].pc = "fetch"
  /\ turns' = [turns EXCEPT ![t] = Failed(t)]
  /\ Commit(BackToListening(World))
  /\ UNCHANGED <<nTurns, graceTimers, ends, endPending>>
  /\ Frame

\* case "transcript"
RecvTranscript(t) ==
  /\ turns[t].pc = "read"
  /\ turns[t].got = "start"
  /\ turns' = [turns EXCEPT ![t].got = "body"]
  /\ Commit([World EXCEPT !.state = "ai_speaking"])
  /\ UNCHANGED <<nTurns, graceTimers, ends, endPending>>
  /\ Frame

\* case "audio" (fb = FALSE) and case "tts_error" (fb = TRUE) for index i
Recv(t, i, fb) ==
  /\ CanEnqueue
  /\ turns' = [turns EXCEPT ![t].sent = @ \cup {i}]
  /\ Commit(EnqueueAudio(World, Item(t, i, fb), stateRef))
  /\ UNCHANGED <<nTurns, graceTimers, ends, endPending>>
  /\ Frame

\* the next audio / tts_error event of the stream: the server's sentenceIndex
RecvAudio(t, fb) ==
  /\ turns[t].pc = "read"
  /\ turns[t].got = "body"
  /\ Cardinality(turns[t].sent) < MaxIdx
  /\ Recv(t, Cardinality(turns[t].sent), fb)

\* case "error", or reader.read() rejected: the catch block
RecvError(t) ==
  /\ turns[t].pc = "read"
  /\ turns' = [turns EXCEPT ![t] = Failed(t)]
  /\ Commit(BackToListening(World))
  /\ UNCHANGED <<nTurns, graceTimers, ends, endPending>>
  /\ Frame

\* the stream has been read to its end and nothing is playing or queued
AudioDrained == ~isPlaying /\ audioQueue = <<>>

\* reader.read() returned done: waitForAudio's first test
StreamDone(t) ==
  /\ turns[t].pc = "read"
  /\ turns[t].got = "body"
  /\ IF AudioDrained
       THEN /\ turns' = [turns EXCEPT ![t] = Finished(t)]
            /\ Commit(BackToListening(World))
       ELSE /\ turns' = [turns EXCEPT ![t].pc = "wait"]
            /\ Commit(World)
  /\ UNCHANGED <<nTurns, graceTimers, ends, endPending>>
  /\ Frame

\* waitForAudio's 100 ms poll finding the audio drained
WaitForAudio(t) ==
  /\ turns[t].pc = "wait"
  /\ AudioDrained
  /\ turns' = [turns EXCEPT ![t] = Finished(t)]
  /\ Commit(BackToListening(World))
  /\ UNCHANGED <<nTurns, graceTimers, ends, endPending>>
  /\ Frame

(***************************************************************************)
(* Resumptions of a suspended processAudioQueue.                           *)
(***************************************************************************)
\* the 50 ms wait for the expected index is over
LoopWake(l) ==
  /\ loops[l].pc = "wait"
  /\ Commit(DrainStep(World, l, stateRef))
  /\ UNCHANGED <<turns, nTurns, graceTimers, ends, endPending>>
  /\ Frame

\* playAudioItem: audio.onended
AudioEnded(l) ==
  /\ loops[l].pc = "audio"
  /\ Commit(DrainStep([World EXCEPT !.cur = -1], l, stateRef))
  /\ UNCHANGED <<turns, nTurns, graceTimers, ends, endPending>>
  /\ Frame

\* a faulty variant of AudioFailed: the item is given up, no fallback voice
AudioFailedNoFallback(l) ==
  /\ loops[l].pc = "audio"
  /\ Commit(DrainStep([World EXCEPT !.cur = -1], l, stateRef))
  /\ UNCHANGED <<turns, nTurns, graceTimers, ends, endPending>>
  /\ Frame

\* playAudioItem: audio.onerror, or audio.play() rejected: the fallback voice
AudioFailed(l) ==
  /\ loops[l].pc = "audio"
  /\ Commit(Speak([World EXCEPT !.cur = -1], l))
  /\ UNCHANGED <<turns, nTurns, graceTimers, ends, endPending>>
  /\ Frame

\* utterance.onend
SpeechEnded(l) ==
  /\ loops[l].pc = "speech"
  /\ Commit(DrainStep([World EXCEPT !.synth = FALSE], l, stateRef))
  /\ UNCHANGED <<turns, nTurns, graceTimers, ends, endPending>>
  /\ Frame

\* utterance.onerror (a failed or a cancelled utterance): the rejection is
\* caught in processAudioQueue, which goes on
SpeechFailed(l) ==
  /\ loops[l].pc \in {"speech", "cancelled"}
  /\ Commit(DrainStep([World EXCEPT !.synth = FALSE], l, stateRef))
  /\ UNCHANGED <<turns, nTurns, graceTimers, ends, endPending>>
  /\ Frame

(***************************************************************************)
(* Buttons.                                                                *)
(***************************************************************************)
\* Stop & Listen, rendered while state is ai_speaking
StopAndListen ==
  /\ state = "ai_speaking"
  /\ turns' = MarkStopped(turns)
  /\ Commit(BackToListening(StopAudio(World)))
  /\ UNCHANGED <<nTurns, graceTimers, ends, endPending>>
  /\ Frame

\* handleEndConversation up to its fetch
EndClick ==
  /\ state \notin {"ended", "error", "loading"}
  /\ ends < MaxEnds
  /\ ends' = ends + 1
  /\ endPending' = endPending + 1
  /\ Commit([Cleanup(World) EXCEPT !.state = "processing"])
  /\ UNCHANGED <<turns, nTurns, graceTimers>>
  /\ Frame

\* handleEndConversation after its fetch, resolved or rejected
EndDone ==
  /\ endPending > 0
  /\ endPending' = endPending - 1
  /\ Commit([World EXCEPT !.state = "ended"])
  /\ UNCHANGED <<turns, nTurns, graceTimers, ends>>
  /\ Frame

NextClient ==
  \/ \E g \in {"none", "audio", "text"} : MountReady(g)
  \/ \E v \in {"none", "paused"} : MountFail(v)
  \/ BeginClick
  \/ BeginInitOk
  \/ BeginInitFail
  \/ GreetingAudioEnded
  \/ GreetingAudioError
  \/ GreetingSpeechEnded
  \/ GreetingSpeechError
  \/ SyncStateRef
  \/ SpeechStart
  \/ GraceTimerFire
  \/ SpeechEnd
  \/ Misfire
  \/ \E t \in TurnIds : FetchOk(t)
  \/ \E t \in TurnIds : FetchFail(t)
  \/ \E t \in TurnIds : RecvTranscript(t)
  \/ \E t \in TurnIds, fb \in BOOLEAN : RecvAudio(t, fb)
  \/ \E t \in TurnIds : RecvError(t)
  \/ \E t \in TurnIds : StreamDone(t)
  \/ \E t \in TurnIds : WaitForAudio(t)
  \/ \E l \in LoopIds : LoopWake(l)
  \/ \E l \in LoopIds : AudioEnded(l)
  \/ \E l \in LoopIds : AudioFailed(l)
  \/ \E l \in LoopIds : SpeechEnded(l)
  \/ \E l \in LoopIds : SpeechFailed(l)
  \/ StopAndListen
  \/ EndClick
  \/ EndDone

\* the SentenceBuffer is not part of the page
IdleSB ==
  /\ minSentenceLength = 1
  /\ sbBuffer = <<>>
  /\ sbInput = <<>>
  /\ sbSentences = <<>>
  /\ sbLastCall = 0
  /\ sbFlushed = FALSE
  /\ sbFlushResult = <<>>
  /\ sbFlushes = 0
  /\ sbLastFlush = <<>>

Init == InitClient /\ IdleSB /\ IdleServer

Next == NextClient

Spec == Init /\ [][Next]_vars

(***************************************************************************)
(* One response whose audio / tts_error items reach enqueueAudio in any    *)
(* order, with no cancellation: the page is in the middle of turn 1, the   *)
(* transcript received, the VAD paused by sendAudio.                       *)
(***************************************************************************)
InitSeq ==
  /\ state = "ai_speaking"
  /\ stateRef = "ai_speaking"
  /\ lag = 0
  /\ vad = "paused"
  /\ audioQueue = <<>>
  /\ isPlaying = FALSE
  /\ nextExpectedIndex = 0
  /\ currentAudio = -1
  /\ speechSynth = FALSE
  /\ loops = [l \in LoopIds |-> NoLoop]
  /\ begin = "done"
  /\ greeting = "none"
  /\ \E n \in 1..MaxSeq :
        turns = [t \in TurnIds |->
                   IF t = 1 THEN [NoTurn EXCEPT !.pc = "read", !.got = "body", !.total = n]
                   ELSE NoTurn]
  /\ nTurns = 1
  /\ graceTimers = 0
  /\ ends = 0
  /\ endPending = 0
  /\ observe = TRUE
  /\ playLog = <<>>
  /\ IdleSB
  /\ IdleServer

\* an audio / tts_error event with any index of the response not yet received
RecvAny(t, i, fb) ==
  /\ turns[t].pc = "read"
  /\ turns[t].got = "body"
  /\ i \in (0..(turns[t].total - 1)) \ turns[t].sent
  /\ Recv(t, i, fb)

\* the stream ends once every item has been received
StreamDoneSeq(t) ==
  /\ turns[t].sent = 0..(turns[t].total - 1)
  /\ StreamDone(t)

NextSeq ==
  \/ \E i \in 0..(MaxSeq - 1), fb \in BOOLEAN : RecvAny(1, i, fb)
  \/ StreamDoneSeq(1)
  \/ WaitForAudio(1)
  \/ SyncStateRef
  \/ \E l \in LoopIds : LoopWake(l)
  \/ \E l \in LoopIds : AudioEnded(l)
  \/ \E l \in LoopIds : AudioFailed(l)
  \/ \E l \in LoopIds : SpeechEnded(l)
  \/ \E l \in LoopIds : SpeechFailed(l)

SpecSeq == InitSeq /\ [][NextSeq]_vars

\* new SentenceBuffer(minSentenceLength), the page not yet mounted
InitSB ==
  /\ minSentenceLength \in 1..MaxMinLen
  /\ sbBuffer = <<>>
  /\ sbInput = <<>>
  /\ sbSentences = <<>>
  /\ sbLastCall = 0
  /\ sbFlushed = FALSE
  /\ sbFlushResult = <<>>
  /\ sbFlushes = 0
  /\ sbLastFlush = <<>>
  /\ InitClient
  /\ IdleServer

\* a SentenceBuffer on its own
SpecSB == InitSB /\ [][NextSB]_vars

(***************************************************************************)
(* The documented example, fed to a SentenceBuffer a few characters at a   *)
(* time.                                                                   *)
(***************************************************************************)
\* "Dr. Smith arrived. It was 3.5 miles. He said... then left. Good."
ExampleInput ==
  <<"D", "r", ".", " ", "S", "m", "i", "t", "h", " ", "a", "r", "r", "i",
    "v", "e", "d", ".", " ", "I", "t", " ", "w", "a", "s", " ", "3", ".",
    "5", " ", "m", "i", "l", "e", "s", ".", " ", "H", "e", " ", "s", "a",
    "i", "d", ".", ".", ".", " ", "t", "h", "e", "n", " ", "l", "e", "f",
    "t", ".", " ", "G", "o", "o", "d", ".">>

\* the sentences the example is documented to give
ExampleSentences ==
  << <<"D", "r", ".", " ", "S", "m", "i", "t", "h", " ", "a", "r", "r", "i", "v",
       "e", "d", ".">>,
     <<"I", "t", " ", "w", "a", "s", " ", "3", ".", "5", " ", "m", "i", "l", "e",
       "s", ".">>,
     <<"H", "e", " ", "s", "a", "i", "d", ".", ".", ".", " ", "t", "h", "e", "n",
       " ", "l", "e", "f", "t", ".">> >>

\* "Good."
ExampleLast == <<"G", "o", "o", "d", ".">>

\* the constructor's default minSentenceLength
DefaultMinSentenceLength == 20

\* new SentenceBuffer(25) of the message route
RouteMinSentenceLength == 25

\* longest piece of the example passed to one addText
MaxChunk == 3

\* new SentenceBuffer() or new SentenceBuffer(25), the page not yet mounted
InitExample ==
  /\ minSentenceLength \in {DefaultMinSentenceLength, RouteMinSentenceLength}
  /\ sbBuffer = <<>>
  /\ sbInput = <<>>
  /\ sbSentences = <<>>
  /\ sbLastCall = 0
  /\ sbFlushed = FALSE
  /\ sbFlushResult = <<>>
  /\ sbFlushes = 0
  /\ sbLastFlush = <<>>
  /\ InitClient
  /\ IdleServer

\* addText with the next n characters of the example
FeedExample(n) ==
  /\ ~sbFlushed
  /\ Len(sbInput) + n <= Len(ExampleInput)
  /\ LET text == SubSeq(ExampleInput, Len(sbInput) + 1, Len(sbInput) + n)
         tagged == [i \in 1..n |-> <<text[i], Len(sbInput) + i>>]
         r == ExtractSentences(sbBuffer \o tagged, minSentenceLength)
     IN  /\ sbBuffer' = r.buffer
         /\ sbSentences' = sbSentences \o r.sentences
         /\ sbLastCall' = Len(r.sentences)
         /\ sbInput' = sbInput \o text
  /\ UNCHANGED <<minSentenceLength, sbFlushed, sbFlushResult, sbFlushes,
                 sbLastFlush, clientVars, srvVars>>

\* flush() once the whole example has been passed
FlushExample ==
  /\ sbInput = ExampleInput
  /\ ~sbFlushed
  /\ Flush

NextExample ==
  \/ \E n \in 1..MaxChunk : FeedExample(n)
  \/ FlushExample

SpecExample == InitExample /\ [][NextExample]_vars

\* C11: once the example has been fed and flushed, addText has returned
\* exactly the sentences ending at "arrived.", "miles." and "left." and
\* flush has returned "Good."
C11_Example ==
  sbFlushed =>
    /\ [i \in DOMAIN sbSentences |-> Chars(sbSentences[i])] = ExampleSentences
    /\ Chars(sbFlushResult) = ExampleLast

(***************************************************************************)
(* The message route (server): POST /api/conversation/message.             *)
(*                                                                         *)
(* One action is one stretch of the handler between two awaits that wait   *)
(* for something outside it: the request and the transcription, the next   *)
(* delta of the model's stream, a synthesis request, the final database    *)
(* write.  The SentenceBuffer variables are the handler's sentenceBuffer;   *)
(* its minSentenceLength is scaled down with the length of the responses.  *)
(***************************************************************************)
\* longest response text of one request
MaxSrvLen == 5
\* longest text delta of the model's stream
MaxSrvFrag == 3
\* requests handled one after the other
MaxRequests == 2

\* the characters of a response: a letter, a terminator and a blank
SrvAlphabet == {"D", "!", " "}

RECURSIVE SrvStrings(_)
SrvStrings(n) ==
  IF n = 0 THEN {<<>>}
  ELSE { Append(t, c) : t \in SrvStrings(n - 1), c \in SrvAlphabet }

\* event.delta.text
SrvDeltas == UNION { SrvStrings(n) : n \in 0..MaxSrvFrag }

\* encodeSSE(event, data): the event type, data.index (-1 when absent) and
\* data.text (empty when absent)
SSE(type, index, text) == [type |-> type, index |-> index, text |-> text]

\* a faulty variant of TextEvent: every text event carries index 0
TextEventZero(index, sentence) == SSE("text", 0, Chars(sentence))

\* writeEvent("text", { text: sentence, index })
TextEvent(index, sentence) == SSE("text", index, Chars(sentence))

\* writeEvent("audio", { audio, index }): no text field
AudioEvent(index) == SSE("audio", index, <<>>)

\* a faulty variant of TtsErrorEvent: the sentence's text is left out
TtsErrorEventNoText(index, sentence) == SSE("tts_error", index, <<>>)

\* writeEvent("tts_error", { text: sentence, index })
TtsErrorEvent(index, sentence) == SSE("tts_error", index, Chars(sentence))

\* a request arrives; the handler returns the response stream at once
SrvRequest ==
  /\ srvPc \in {"none", "closed"}
  /\ srvRequests < MaxRequests
  /\ srvRequests' = srvRequests + 1
  /\ srvSaved' = 0
  /\ srvPc' = "start"
  /\ srvEvents' = <<>>
  /\ srvBatch' = <<>>
  /\ UNCHANGED <<sentenceIndex, sbVars, clientVars, convVars>>

\* a faulty variant of SrvReject: a transcript event precedes the error event
SrvRejectAfterTranscript ==
  /\ srvPc = "start"
  /\ srvEvents' = srvEvents \o <<SSE("transcript", -1, <<>>), SSE("error", -1, <<>>)>>
  /\ srvPc' = "closed"
  /\ UNCHANGED <<sentenceIndex, srvBatch, srvRequests, srvSaved, sbVars, clientVars, convVars>>

\* a validation failure, an empty transcription (!userText), or an exception
\* before the transcript is written: one error event, the stream is closed
SrvReject ==
  /\ srvPc = "start"
  /\ srvEvents' = Append(srvEvents, SSE("error", -1, <<>>))
  /\ srvPc' = "closed"
  /\ UNCHANGED <<sentenceIndex, srvBatch, srvRequests, srvSaved, sbVars, clientVars, convVars>>

\* const sentenceBuffer = new SentenceBuffer(25); let sentenceIndex = 0
SrvNewBuffer ==
  /\ sentenceIndex' = 0
  /\ sbBuffer' = <<>>
  /\ sbInput' = <<>>
  /\ sbSentences' = <<>>
  /\ sbLastCall' = 0
  /\ sbFlushed' = FALSE
  /\ sbFlushResult' = <<>>
  /\ sbFlushes' = 0
  /\ sbLastFlush' = <<>>
  /\ UNCHANGED minSentenceLength

\* a faulty variant of SrvTranscript: the transcript event is not written
SrvTranscriptMissing ==
  /\ srvPc = "start"
  /\ srvPc' = "llm"
  /\ SrvNewBuffer
  /\ UNCHANGED <<srvEvents, srvBatch, srvRequests, srvSaved, clientVars, convVars>>

\* the transcription is there: the transcript event, the user's message is
\* saved, then a new SentenceBuffer and sentenceIndex = 0, then the model's
\* stream is opened
SrvTranscript ==
  /\ srvPc = "start"
  /\ srvEvents' = Append(srvEvents, SSE("transcript", -1, <<>>))
  /\ srvSaved' = srvSaved + 1
  /\ srvPc' = "llm"
  /\ SrvNewBuffer
  /\ UNCHANGED <<srvBatch, srvRequests, clientVars, convVars>>

\* a text delta of the model's stream: addText, then the text event of the
\* first sentence it returned and the start of its synthesis
SrvDelta(text) ==
  /\ srvPc = "llm"
  /\ Len(sbInput) + Len(text) <= MaxSrvLen
  /\ LET tagged == [i \in 1..Len(text) |-> <<text[i], Len(sbInput) + i>>]
         r == ExtractSentences(sbBuffer \o tagged, minSentenceLength)
     IN  /\ sbBuffer' = r.buffer
         /\ sbSentences' = sbSentences \o r.sentences
         /\ sbLastCall' = Len(r.sentences)
         /\ sbInput' = sbInput \o text
         /\ srvBatch' = r.sentences
         /\ IF r.sentences = <<>>
              THEN UNCHANGED <<srvPc, srvEvents>>
              ELSE /\ srvPc' = "tts"
                   /\ srvEvents' =
                        Append(srvEvents, TextEvent(sentenceIndex, r.sentences[1]))
  /\ UNCHANGED <<minSentenceLength, sbFlushed, sbFlushResult, sbFlushes,
                 sbLastFlush, sentenceIndex, srvRequests, srvSaved, clientVars, convVars>>

\* a faulty variant of SrvNextSentence: the outcome of the synthesis is not
\* written to the stream
SrvNextSentenceSilent(ev) ==
  /\ sentenceIndex' = sentenceIndex + 1
  /\ srvBatch' = Tail(srvBatch)
  /\ IF Tail(srvBatch) = <<>>
       THEN /\ srvPc' = "llm"
            /\ UNCHANGED srvEvents
       ELSE /\ srvPc' = "tts"
            /\ srvEvents' = Append(srvEvents, TextEvent(sentenceIndex + 1, srvBatch[2]))
  /\ UNCHANGED <<srvRequests, srvSaved, sbVars, clientVars, convVars>>

\* the for-of loop after the synthesis of its current sentence was answered
\* with event ev: sentenceIndex++, then the next sentence of the batch (its
\* text event is written) or back to the model's stream
SrvNextSentence(ev) ==
  /\ sentenceIndex' = sentenceIndex + 1
  /\ srvBatch' = Tail(srvBatch)
  /\ IF Tail(srvBatch) = <<>>
       THEN /\ srvPc' = "llm"
            /\ srvEvents' = Append(srvEvents, ev)
       ELSE /\ srvPc' = "tts"
            /\ srvEvents' = srvEvents \o
                 <<ev, TextEvent(sentenceIndex + 1, srvBatch[2])>>
  /\ UNCHANGED <<srvRequests, srvSaved, sbVars, clientVars, convVars>>

\* audio.speech.create and arrayBuffer() succeeded
SrvTtsOk ==
  /\ srvPc = "tts"
  /\ SrvNextSentence(AudioEvent(sentenceIndex))

\* audio.speech.create or arrayBuffer() threw: the catch of the loop body
SrvTtsFail ==
  /\ srvPc = "tts"
  /\ SrvNextSentence(TtsErrorEvent(sentenceIndex, srvBatch[1]))

\* the model's stream is finished: flush(), then the text event of the
\* remainder and the start of its synthesis, or straight to the final write
SrvStreamEnd ==
  /\ srvPc = "llm"
  /\ LET remaining == FlushResult(sbBuffer) IN
       /\ sbLastFlush' = remaining
       /\ sbFlushResult' = remaining
       /\ IF remaining # <<>>
            THEN /\ srvPc' = "flushTts"
                 /\ srvBatch' = <<remaining>>
                 /\ srvEvents' = Append(srvEvents, TextEvent(sentenceIndex, remaining))
            ELSE /\ srvPc' = "save"
                 /\ UNCHANGED <<srvBatch, srvEvents>>
  /\ sbFlushes' = sbFlushes + 1
  /\ sbFlushed' = TRUE
  /\ sbBuffer' = <<>>
  /\ UNCHANGED <<minSentenceLength, sbInput, sbSentences, sbLastCall,
                 sentenceIndex, srvRequests, srvSaved, clientVars, convVars>>

\* the synthesis of the remainder succeeded
SrvFlushTtsOk ==
  /\ srvPc = "flushTts"
  /\ srvEvents' = Append(srvEvents, AudioEvent(sentenceIndex))
  /\ srvBatch' = <<>>
  /\ srvPc' = "save"
  /\ UNCHANGED <<sentenceIndex, srvRequests, srvSaved, sbVars, clientVars, convVars>>

\* the synthesis of the remainder threw
SrvFlushTtsFail ==
  /\ srvPc = "flushTts"
  /\ srvEvents' = Append(srvEvents, TtsErrorEvent(sentenceIndex, srvBatch[1]))
  /\ srvBatch' = <<>>
  /\ srvPc' = "save"
  /\ UNCHANGED <<sentenceIndex, srvRequests, srvSaved, sbVars, clientVars, convVars>>

\* a faulty variant of SrvComplete: the complete event may be written while the
\* synthesis of the remainder is still awaited
SrvCompleteEarly ==
  /\ srvPc \in {"save", "flushTts"}
  /\ srvEvents' = Append(srvEvents, SSE("complete", -1, <<>>))
  /\ srvSaved' = srvSaved + 1
  /\ srvPc' = "closed"
  /\ UNCHANGED <<sentenceIndex, srvBatch, srvRequests, sbVars, clientVars, convVars>>

\* the response was saved: the complete event, the stream is closed
SrvComplete ==
  /\ srvPc = "save"
  /\ srvEvents' = Append(srvEvents, SSE("complete", -1, <<>>))
  /\ srvSaved' = srvSaved + 1
  /\ srvPc' = "closed"
  /\ UNCHANGED <<sentenceIndex, srvBatch, srvRequests, sbVars, clientVars, convVars>>

\* the model's stream or a database write threw: the outer catch
SrvFail ==
  /\ srvPc \in {"llm", "save"}
  /\ srvEvents' = Append(srvEvents, SSE("error", -1, <<>>))
  /\ srvBatch' = <<>>
  /\ srvPc' = "closed"
  /\ UNCHANGED <<sentenceIndex, srvRequests, srvSaved, sbVars, clientVars, convVars>>

\* the client is gone: writer.write rejects, also in the outer catch
SrvWriteFail ==
  /\ srvPc \in {"start", "llm", "tts", "flushTts", "save"}
  /\ srvBatch' = <<>>
  /\ srvPc' = "closed"
  /\ UNCHANGED <<srvEvents, sentenceIndex, srvRequests, srvSaved, sbVars, clientVars, convVars>>

NextServer ==
  \/ SrvRequest
  \/ SrvReject
  \/ SrvTranscript
  \/ \E text \in SrvDeltas : SrvDelta(text)
  \/ SrvTtsOk
  \/ SrvTtsFail
  \/ SrvStreamEnd
  \/ SrvFlushTtsOk
  \/ SrvFlushTtsFail
  \/ SrvComplete
  \/ SrvFail
  \/ SrvWriteFail

\* the route on its own, the page not yet mounted
InitServer ==
  /\ minSentenceLength \in 1..MaxMinLen
  /\ sbBuffer = <<>>
  /\ sbInput = <<>>
  /\ sbSentences = <<>>
  /\ sbLastCall = 0
  /\ sbFlushed = FALSE
  /\ sbFlushResult = <<>>
  /\ sbFlushes = 0
  /\ sbLastFlush = <<>>
  /\ InitClient
  /\ IdleServer

SpecServer == InitServer /\ [][NextServer]_vars

(***************************************************************************)
(* One response stream from the route to the page: the handler writes the  *)
(* events, sendAudio of turn 1 reads them in order, the drain loop plays.  *)
(* What the page has read is told by its own state: the transcript once     *)
(* got = "body", as many audio / tts_error events as indices in sent.       *)
(***************************************************************************)
\* the audio and tts_error events sendAudio has not read yet
UnreadItems ==
  { k \in DOMAIN srvEvents :
      /\ srvEvents[k].type \in {"audio", "tts_error"}
      /\ srvEvents[k].index \notin turns[1].sent }

\* case "transcript" of the stream's transcript event
ReadTranscript ==
  /\ \E k \in DOMAIN srvEvents : srvEvents[k].type = "transcript"
  /\ RecvTranscript(1)

\* case "audio" / "tts_error" of the first such event not read yet
ReadItem ==
  /\ turns[1].pc = "read"
  /\ turns[1].got = "body"
  /\ UnreadItems # {}
  /\ LET k == CHOOSE j \in UnreadItems : \A i \in UnreadItems : j <= i
     IN  Recv(1, srvEvents[k].index, srvEvents[k].type = "tts_error")

\* case "error" once everything before it has been read
ReadError ==
  /\ srvEvents # <<>>
  /\ srvEvents[Len(srvEvents)].type = "error"
  /\ UnreadItems = {}
  /\ RecvError(1)

\* reader.read() returns done: the complete event has been read
ReadDone ==
  /\ srvPc = "closed"
  /\ srvEvents # <<>>
  /\ srvEvents[Len(srvEvents)].type = "complete"
  /\ UnreadItems = {}
  /\ StreamDone(1)

\* the fetch of turn 1 has resolved, the handler is at its first await; the
\* events are read in the order written, so the drain loop never has to wait
\* 50 ms for a missing index
InitStream ==
  /\ state = "processing"
  /\ stateRef = "processing"
  /\ lag = 0
  /\ vad = "paused"
  /\ audioQueue = <<>>
  /\ isPlaying = FALSE
  /\ nextExpectedIndex = 0
  /\ currentAudio = -1
  /\ speechSynth = FALSE
  /\ loops = [l \in LoopIds |-> NoLoop]
  /\ begin = "done"
  /\ greeting = "none"
  /\ turns = [t \in TurnIds |-> IF t = 1 THEN [NoTurn EXCEPT !.pc = "read"] ELSE NoTurn]
  /\ nTurns = 1
  /\ graceTimers = 0
  /\ ends = 0
  /\ endPending = 0
  /\ observe = TRUE
  /\ playLog = <<>>
  /\ minSentenceLength \in 1..MaxMinLen
  /\ sbBuffer = <<>>
  /\ sbInput = <<>>
  /\ sbSentences = <<>>
  /\ sbLastCall = 0
  /\ sbFlushed = FALSE
  /\ sbFlushResult = <<>>
  /\ sbFlushes = 0
  /\ sbLastFlush = <<>>
  /\ srvPc = "start"
  /\ srvEvents = <<>>
  /\ sentenceIndex = 0
  /\ srvBatch = <<>>
  /\ srvRequests = 1
  /\ srvSaved = 0
  /\ IdleConv

NextStream ==
  \/ SrvReject
  \/ SrvTranscript
  \/ \E text \in SrvDeltas : SrvDelta(text)
  \/ SrvTtsOk
  \/ SrvTtsFail
  \/ SrvStreamEnd
  \/ SrvFlushTtsOk
  \/ SrvFlushTtsFail
  \/ SrvComplete
  \/ SrvFail
  \/ ReadTranscript
  \/ ReadItem
  \/ ReadError
  \/ ReadDone
  \/ WaitForAudio(1)
  \/ SyncStateRef
  \/ \E l \in LoopIds : AudioEnded(l)
  \/ \E l \in LoopIds : AudioFailed(l)
  \/ \E l \in LoopIds : SpeechEnded(l)
  \/ \E l \in LoopIds : SpeechFailed(l)

SpecStream == InitStream /\ [][NextStream]_vars

(***************************************************************************)
(* Properties of the message route.                                        *)
(***************************************************************************)
\* the events of the response stream whose type is in types, in order
EventsOfType(types) == SelectSeq(srvEvents, LAMBDA e : e.type \in types)

\* the places in the stream of the events of a type in types with index i
Places(types, i) ==
  { k \in DOMAIN srvEvents : srvEvents[k].type \in types /\ srvEvents[k].index = i }

\* the sentences the SentenceBuffer has given the handler so far
NDispatchable == Len(sbSentences) + (IF sbFlushResult # <<>> THEN 1 ELSE 0)

\* the stream ended with the complete event
TurnCompleted ==
  srvEvents # <<>> /\ srvEvents[Len(srvEvents)].type = "complete"

\* C16: in every response stream the k-th text event carries index k-1, the
\* one for the flushed remainder included; this holds for every request, so
\* each response starts again at 0
C16_TextIndices ==
  LET texts == EventsOfType({"text"}) IN
    \A k \in DOMAIN texts : texts[k].index = k - 1

\* C16 witness: the second response, completed, with at least two text
\* events, the last of them for the flushed remainder
C16_Witness ==
  /\ srvRequests = 2
  /\ TurnCompleted
  /\ Len(EventsOfType({"text"})) >= 2
  /\ sbSentences # <<>>
  /\ sbFlushResult # <<>>

\* C17: for every index, at most one text event and at most one audio or
\* tts_error event are in the stream, the latter only after the former; and
\* when the turn has completed every sentence the SentenceBuffer gave has
\* its text event and exactly one audio or tts_error event
C17_OneOutcome ==
  /\ \A i \in 0..MaxSrvLen :
       /\ Cardinality(Places({"text"}, i)) <= 1
       /\ Cardinality(Places({"audio", "tts_error"}, i)) <= 1
       /\ \A k \in Places({"audio", "tts_error"}, i) :
            \E j \in Places({"text"}, i) : j < k
  /\ TurnCompleted =>
       /\ Len(EventsOfType({"text"})) = NDispatchable
       /\ \A i \in 0..(NDispatchable - 1) :
            /\ Cardinality(Places({"text"}, i)) = 1
            /\ Cardinality(Places({"audio", "tts_error"}, i)) = 1

\* C17 witness: a completed turn with one sentence synthesised and one not
C17_Witness ==
  /\ TurnCompleted
  /\ EventsOfType({"audio"}) # <<>>
  /\ EventsOfType({"tts_error"}) # <<>>

\* the step is the end of a synthesis request that produced no audio event
SynthesisFailed ==
  /\ srvPc \in {"tts", "flushTts"}
  /\ Len(srvEvents') > Len(srvEvents)
  /\ srvEvents'[Len(srvEvents) + 1].type # "audio"

\* the step is sendAudio reading the tts_error event of index i
ReadsTtsError(i) ==
  /\ i \notin turns[1].sent
  /\ i \in turns'[1].sent
  /\ Places({"tts_error"}, i) # {}

\* C18: a synthesis failure for sentence i writes a tts_error event with
\* index i and the text of that sentence's text event, does not close the
\* stream or write an error event, and the next sentence of the batch gets
\* its text event; a completed turn has a text event and an outcome for every
\* sentence; the page enqueues (or starts at once) the fallback item i when it
\* reads the tts_error event, and what it plays at position i uses the
\* fallback voice exactly when the stream holds tts_error for i
C18_FailureIsolated ==
  /\ [][SynthesisFailed =>
          LET e == srvEvents'[Len(srvEvents) + 1] IN
            /\ e.type = "tts_error"
            /\ e.index = sentenceIndex
            /\ \E j \in Places({"text"}, sentenceIndex) : srvEvents[j].text = e.text
            /\ srvPc' # "closed"
            /\ \A k \in DOMAIN srvEvents' : srvEvents'[k].type # "error"
            /\ Len(srvBatch) > 1 =>
                 /\ Len(srvEvents') = Len(srvEvents) + 2
                 /\ srvEvents'[Len(srvEvents')].type = "text"
                 /\ srvEvents'[Len(srvEvents')].index = sentenceIndex + 1
                 /\ srvEvents'[Len(srvEvents')].text = Chars(srvBatch[2])]_vars
  /\ [][\A i \in 0..MaxSrvLen : ReadsTtsError(i) =>
          \/ \E k \in DOMAIN audioQueue' : audioQueue'[k] = Item(1, i, TRUE)
          \/ playLog' = Append(playLog, Item(1, i, TRUE))]_vars
  /\ [](TurnCompleted =>
          \A i \in 0..(NDispatchable - 1) :
            /\ Places({"text"}, i) # {}
            /\ Places({"audio", "tts_error"}, i) # {})
  /\ [](\A k \in DOMAIN playLog :
          /\ playLog[k].index = k - 1
          /\ playLog[k].useFallback <=> Places({"tts_error"}, k - 1) # {})

\* C18 witness: the synthesis of sentence 0 failed, sentence 1 was
\* synthesised, the turn completed, and the page played 0 with the fallback
\* voice and then 1 from its audio
C18_Witness ==
  /\ TurnCompleted
  /\ Places({"tts_error"}, 0) # {}
  /\ Places({"audio"}, 1) # {}
  /\ Len(playLog) = 2
  /\ playLog[1] = Item(1, 0, TRUE)
  /\ playLog[2] = Item(1, 1, FALSE)

\* C19: the text event of a sentence is written as soon as the
\* SentenceBuffer has given it: no synthesis request is awaited while a
\* sentence that was given has no text event yet
C19_TextImmediate ==
  Len(EventsOfType({"text"})) = NDispatchable

\* C20: every text, audio or tts_error event of a stream comes after a
\* transcript event, and a stream holds at most one transcript event
C20_TranscriptFirst ==
  /\ \A k \in DOMAIN srvEvents :
       srvEvents[k].type \in {"text", "audio", "tts_error"} =>
         \E j \in 1..(k - 1) : srvEvents[j].type = "transcript"
  /\ Len(EventsOfType({"transcript"})) <= 1

\* C20 witness: a second stream with a transcript, a text and an audio event
C20_Witness ==
  /\ srvRequests = 2
  /\ EventsOfType({"transcript"}) # <<>>
  /\ EventsOfType({"text"}) # <<>>
  /\ EventsOfType({"audio", "tts_error"}) # <<>>

(***************************************************************************)
(* Properties of the page.                                                 *)
(***************************************************************************)
\* the drain loops whose item is audible
PlayingLoops == { l \in LoopIds : loops[l].pc \in {"audio", "speech"} }

\* the greeting is audible
GreetingPlaying == begin \in {"audio", "speech"}

\* how many things are audible
NPlaying == Cardinality(PlayingLoops) + (IF GreetingPlaying THEN 1 ELSE 0)

\* the sendAudio invocations that have not returned
TurnsInProgress == { t \in TurnIds : turns[t].pc \in {"fetch", "read", "wait"} }

\* the items of turn t that are queued or held by a drain loop
ItemsOf(t) ==
  { audioQueue[i] : i \in { j \in 1..Len(audioQueue) : audioQueue[j].turn = t } }
  \cup { loops[l].item : l \in { k \in LoopIds : loops[k].pc # "none" /\ loops[k].item.turn = t } }

\* C1: with no cancellation and the items 0..n-1 of one response arriving in
\* any order, the k-th item whose playback starts is the item with index k-1,
\* it starts only when every earlier one has finished (the only item a drain
\* loop holds is the last one started), every item received is queued or
\* has been started, and when the turn returns nothing is left to play.
C1_PlayOrder ==
  /\ \A k \in DOMAIN playLog : playLog[k].index = k - 1
  /\ \A l \in LoopIds :
       loops[l].pc \in {"audio", "speech", "cancelled"} =>
         /\ playLog # <<>>
         /\ loops[l].item = playLog[Len(playLog)]
  /\ NPlaying <= 1
  /\ \A i \in turns[1].sent :
       \/ \E j \in 1..Len(audioQueue) : audioQueue[j].index = i
       \/ i < Len(playLog)
  /\ turns[1].pc = "done" =>
       /\ audioQueue = <<>>
       /\ NPlaying = 0
       /\ Len(playLog) = nextExpectedIndex
       /\ Len(playLog) >= 1

\* C1 witness: items 2 and 1 arrived in that order and wait in the queue
\* while item 0, which arrived later or first, is the only one started
C1_Witness ==
  /\ observe
  /\ Len(playLog) = 1
  /\ Len(audioQueue) = 2
  /\ audioQueue[1].index = 2
  /\ audioQueue[2].index = 1

\* C2: at most one item (network audio or fallback utterance) is audible
C2_NoOverlap == NPlaying <= 1

\* C3: once stopAudio has run during a turn, no item of that turn is queued
\* or played any more
C3_StaleDiscarded ==
  \A t \in TurnIds : turns[t].stopped => ItemsOf(t) = {}

\* a step in which a drain loop resumes
LoopStep ==
  \E l \in LoopIds :
    LoopWake(l) \/ AudioEnded(l) \/ AudioFailed(l) \/ SpeechEnded(l) \/ SpeechFailed(l)

\* a step in which a sendAudio invocation returns normally
TurnReturns == \E t \in TurnIds : StreamDone(t) \/ WaitForAudio(t)

\* C4: the end-of-response transition from ai_speaking to listening (by the
\* drain loop or by sendAudio returning) is taken only when no response
\* stream is still open and nothing is queued or audible
C4_EndOfResponse ==
  [][ ( /\ LoopStep \/ TurnReturns
        /\ state = "ai_speaking"
        /\ state' = "listening" )
      => ( /\ \A t \in TurnIds : turns'[t].pc \notin {"fetch", "read"}
           /\ audioQueue' = <<>>
           /\ NPlaying' = 0 ) ]_vars

\* C5: while the state is listening and the VAD is started, nothing is
\* audible and the queue is empty
C5_CaptureExcludesPlayback ==
  (state = "listening" /\ vad \in {"started", "speech"}) =>
    (NPlaying = 0 /\ audioQueue = <<>>)

\* C6: a speech-start event received while the state is ai_speaking moves
\* the state to interrupted and stops playback in the same step
C6_BargeIn ==
  [][ (SpeechStart /\ state = "ai_speaking")
      => ( /\ state' = "interrupted"
           /\ NPlaying' = 0
           /\ audioQueue' = <<>> ) ]_vars

\* C7: once the state is ended or error it does not change
C7_Terminal ==
  [][ (state \in {"ended", "error"}) => (state' = state) ]_vars

\* C8: at most one sendAudio invocation is in progress
C8_OneTurn == Cardinality(TurnsInProgress) <= 1

\* the step is a call of stopAudio: Stop & Listen, or onSpeechStart while
\* stateRef is ai_speaking
StopAudioStep ==
  \/ StopAndListen
  \/ (stateRef = "ai_speaking" /\ SpeechStart)

\* an Audio element is playing or an utterance is being spoken
InFlight(ls, b) ==
  \/ \E l \in LoopIds : ls[l].pc \in {"audio", "speech"}
  \/ b \in {"audio", "speech"}

\* C21: right after stopAudio the queue is empty, nothing is playing or
\* being spoken, and nextExpectedIndex is 0
C21_AfterCancel ==
  [][StopAudioStep =>
       /\ audioQueue' = <<>>
       /\ ~InFlight(loops', begin')
       /\ nextExpectedIndex' = 0]_vars

\* the processAudioQueue invocations that have not returned and will resume
ActiveLoops == { l \in LoopIds : loops[l].pc # "none" }

\* C22: at most one drain loop is active at any time
C22_SingleFlight == Cardinality(ActiveLoops) <= 1

\* drain loop l goes on after the item it held: it holds the queued item
\* with the expected index, or waits for it, or has returned on an empty queue
GoesOn(l) ==
  LET k == FindIndex(audioQueue, nextExpectedIndex) IN
    /\ k # 0 => /\ loops'[l].pc \in {"audio", "speech"}
                /\ loops'[l].item = audioQueue[k]
                /\ nextExpectedIndex' = nextExpectedIndex + 1
    /\ (k = 0 /\ audioQueue # <<>>) => loops'[l].pc = "wait"
    /\ audioQueue = <<>> => loops'[l].pc = "none"

\* C23: an item without payload is spoken by the fallback voice; when the
\* playback of an item fails the fallback voice speaks that same item; when
\* the fallback voice fails (or ends) the drain loop goes on with the next
\* index; and no step of a drain loop sets the state to error
C23_PlaybackFailure ==
  /\ [](\A l \in LoopIds : loops[l].pc = "audio" => ~loops[l].item.useFallback)
  /\ [][\A l \in LoopIds :
          /\ AudioFailed(l) =>
               /\ loops'[l].pc = "speech"
               /\ loops'[l].item = loops[l].item
               /\ nextExpectedIndex' = nextExpectedIndex
               /\ audioQueue' = audioQueue
          /\ (loops[l].pc = "speech" /\ (SpeechFailed(l) \/ SpeechEnded(l))) =>
               GoesOn(l)]_vars
  /\ [][LoopStep => (state' # "error" \/ state = "error")]_vars

\* C23 witness: the audio of item 1 has failed and the fallback voice speaks
\* it, item 0 was played before and item 2 waits in the queue
C23_Witness ==
  /\ Len(playLog) = 2
  /\ \E l \in LoopIds :
       /\ loops[l].pc = "speech"
       /\ loops[l].item = Item(1, 1, FALSE)
  /\ \E k \in DOMAIN audioQueue : audioQueue[k].index = 2

\* the fetch of handleEndConversation settles, and the stateRef effect runs
\* after every render
SpecEnd == Init /\ [][Next]_vars /\ WF_vars(EndDone) /\ WF_vars(SyncStateRef)

C25_InitFailure ==
  begin = "failed" =>
    /\ state = "error"
    /\ vad \notin {"started", "speech"}

\* C25 witness: MicVAD.new was rejected after the start gesture
C25_Witness ==
  /\ begin = "failed"
  /\ state = "error"
  /\ stateRef = "error"

\* the handler has returned without saving the user's message: it stopped
\* before the transcript (no text transcribed, or an earlier failure)
NoTranscript == srvPc = "closed" /\ srvSaved = 0

\* C26: a handler that ends before opening the model's stream has written
\* exactly one error event and saved nothing; the page then never enters
\* ai_speaking for that turn, plays nothing, and once sendAudio has returned
\* (through its catch, which sets the error message) the state is listening
\* and the VAD is started
C26_TranscriptionFailure ==
  /\ [][(srvPc = "start" /\ srvPc' = "closed") =>
          /\ srvEvents' = <<SSE("error", -1, <<>>)>>
          /\ srvSaved' = 0]_vars
  /\ [](NoTranscript =>
          /\ state # "ai_speaking"
          /\ turns[1].got = "start"
          /\ playLog = <<>>
          /\ audioQueue = <<>>
          /\ turns[1].pc = "done" =>
               /\ turns[1].failed
               /\ state = "listening"
               /\ vad = "started")

\* C26 witness: the error event of a rejected request has been read and
\* sendAudio has returned
C26_Witness ==
  /\ NoTranscript
  /\ srvEvents = <<SSE("error", -1, <<>>)>>
  /\ turns[1].pc = "done"
  /\ turns[1].failed
  /\ state = "listening"
  /\ stateRef = "listening"

\* C27: while sendAudio reads the stream and has received no audio or
\* tts_error event yet, the state is not ai_speaking
C27_SpeakingOnFirstUnit ==
  (turns[1].pc = "read" /\ turns[1].sent = {}) => state # "ai_speaking"

\* C28: a speech-end event starts a sendAudio invocation only when the state
\* is listening
C28_SpeechEndOnlyListening ==
  [][(SpeechEnd /\ nTurns' = nTurns + 1) => state = "listening"]_vars

\* every item of the response arrives, the stream ends, every playback ends
\* or fails, timers fire and the stateRef effect runs
SpecSeqFair ==
  /\ InitSeq
  /\ [][NextSeq]_vars
  /\ WF_vars(\E i \in 0..(MaxSeq - 1), fb \in BOOLEAN : RecvAny(1, i, fb))
  /\ WF_vars(StreamDoneSeq(1))
  /\ WF_vars(WaitForAudio(1))
  /\ WF_vars(SyncStateRef)
  /\ \A l \in LoopIds :
       /\ WF_vars(LoopWake(l))
       /\ WF_vars(AudioEnded(l) \/ AudioFailed(l))
       /\ WF_vars(SpeechEnded(l) \/ SpeechFailed(l))

\* all n items have been played in order, no drain loop is left, the queue
\* is empty, isPlayingRef is false, sendAudio has returned, and the state is
\* listening with the VAD started
PlaybackComplete(n) ==
  /\ Len(playLog) = n
  /\ \A k \in DOMAIN playLog : playLog[k].index = k - 1
  /\ ActiveLoops = {}
  /\ audioQueue = <<>>
  /\ ~isPlaying
  /\ turns[1].pc = "done"
  /\ state = "listening"
  /\ vad = "started"

\* C29: a response of n items, with no cancellation, ends in PlaybackComplete(n)
\* and stays there
C29_PlaybackCompletes ==
  \A n \in 1..MaxSeq : (turns[1].total = n) ~> [](PlaybackComplete(n))

\* C29 witness: three items were played and the turn is over
C29_Witness == PlaybackComplete(3) /\ stateRef = "listening"

\* the response stream ends although an index was never sent
StreamEndsShort(t) ==
  /\ turns[t].sent # 0..(turns[t].total - 1)
  /\ StreamDone(t)

NextGap ==
  \/ \E i \in 0..(MaxSeq - 1), fb \in BOOLEAN : RecvAny(1, i, fb)
  \/ StreamDoneSeq(1)
  \/ StreamEndsShort(1)
  \/ WaitForAudio(1)
  \/ SyncStateRef
  \/ \E l \in LoopIds : LoopWake(l)
  \/ \E l \in LoopIds : AudioEnded(l)
  \/ \E l \in LoopIds : AudioFailed(l)
  \/ \E l \in LoopIds : SpeechEnded(l)
  \/ \E l \in LoopIds : SpeechFailed(l)

SpecGap == InitSeq /\ [][NextGap]_vars

\* the stream is over, the item with index nextExpectedIndex never came,
\* and the queue holds later items
MissingIndex ==
  /\ turns[1].pc = "wait"
  /\ audioQueue # <<>>
  /\ FindIndex(audioQueue, nextExpectedIndex) = 0

\* C30: with the expected index missing for good, a drain loop is active
\* (finishing the item before the gap, or in its 50 ms wait) and isPlayingRef
\* is true, and every step leaves it so: the queued items stay queued and
\* are never played, nextExpectedIndex does not move, no loop returns, and
\* sendAudio stays in waitForAudio
C30_MissingIndexBlocks ==
  /\ [](MissingIndex =>
          /\ isPlaying
          /\ ActiveLoops # {}
          /\ \A k \in DOMAIN audioQueue : audioQueue[k].index > nextExpectedIndex)
  /\ [][MissingIndex =>
          /\ MissingIndex'
          /\ isPlaying'
          /\ ActiveLoops' = ActiveLoops
          /\ audioQueue' = audioQueue
          /\ playLog' = playLog
          /\ nextExpectedIndex' = nextExpectedIndex]_vars

\* C30 witness: item 0 was played, item 1 never came, item 2 is queued and
\* the stream is over
C30_Witness ==
  /\ MissingIndex
  /\ \E l \in LoopIds : loops[l].pc = "wait"
  /\ nextExpectedIndex = 1
  /\ Len(playLog) = 1
  /\ audioQueue = <<Item(1, 2, FALSE)>>
  /\ stateRef = "listening"

ItemText(i) ==
  LET k == CHOOSE j \in Places({"audio", "tts_error"}, i) : TRUE
  IN  srvEvents[k].text

\* the text of the sentence with index i, as its text event carries it
SentenceText(i) ==
  LET k == CHOOSE j \in Places({"text"}, i) : TRUE IN srvEvents[k].text

\* C33: every item sendAudio has enqueued for an index i carries the text of
\* the sentence with index i
C33_ItemsCarryText ==
  \A i \in turns[1].sent :
    Places({"audio", "tts_error"}, i) # {} => ItemText(i) = SentenceText(i)

\* C34: when the 300 ms timer armed by a barge-in fires, the state changes
\* (to listening) only if it is still interrupted
C34_GraceTimer ==
  [][GraceTimerFire => (state = "interrupted" \/ state' = state)]_vars

\* C35: an audio or tts_error event read from the stream of turn t after a
\* later turn has started is neither queued nor played
C35_EarlierTurnItems ==
  [][\A t \in TurnIds :
       (turns'[t].sent # turns[t].sent /\ turns[t].pc = "read" /\ nTurns > t) =>
         /\ audioQueue' = audioQueue
         /\ playLog' = playLog
         /\ loops' = loops]_vars

\* the positions of the complete and error events of the stream
TerminalEvents ==
  { k \in DOMAIN srvEvents : srvEvents[k].type \in {"complete", "error"} }

\* the text events of the stream
TextEvents == { k \in DOMAIN srvEvents : srvEvents[k].type = "text" }

\* a terminal event, if written, is the only one and the last event, and the
\* stream is closed
TerminalIsLast ==
  /\ Cardinality(TerminalEvents) <= 1
  /\ \A k \in TerminalEvents : k = Len(srvEvents) /\ srvPc = "closed"

\* a complete event comes after the text event of every sentence segmented in
\* the turn, the remainder included, and after the audio or tts_error event of
\* each of them
CompleteAfterAll ==
  \A c \in DOMAIN srvEvents :
    srvEvents[c].type = "complete" =>
      /\ Cardinality(TextEvents) =
           Len(sbSentences) + (IF sbFlushResult # <<>> THEN 1 ELSE 0)
      /\ \A k \in TextEvents :
           \E j \in (k + 1)..(c - 1) :
             /\ srvEvents[j].type \in {"audio", "tts_error"}
             /\ srvEvents[j].index = srvEvents[k].index

\* the statement as written, C36: a closed stream holds exactly one terminal
\* event, as its last event
C36_AlwaysTerminal ==
  /\ TerminalIsLast
  /\ CompleteAfterAll
  /\ srvPc = "closed" => Cardinality(TerminalEvents) = 1

\* C36: a stream holds at most one terminal event (complete or error) and
\* nothing is written after it; the handler closes the stream with a terminal
\* event unless a write to the stream was rejected; complete comes after the
\* text event and the audio or tts_error event of every sentence of the turn
C36_TerminalEvent ==
  /\ [](TerminalIsLast /\ CompleteAfterAll)
  /\ [][(srvPc # "closed" /\ srvPc' = "closed" /\ srvEvents' # srvEvents) =>
          Cardinality(TerminalEvents') = 1]_vars

\* a stream closed by complete after a sentence and a flushed remainder
C36_Witness ==
  /\ srvPc = "closed"
  /\ srvEvents # <<>>
  /\ srvEvents[Len(srvEvents)].type = "complete"
  /\ sbSentences # <<>>
  /\ sbFlushResult # <<>>
  /\ \E k \in DOMAIN srvEvents : srvEvents[k].type = "tts_error"

(***************************************************************************)
(* The conversation in the database and the requests of the message and    *)
(* end routes for it.  Each action is a handler from one await to the      *)
(* next; requests are handled concurrently.  Of a message request's        *)
(* stream only the transcript, complete and error events are kept here.    *)
(***************************************************************************)
\* the latest parts of the rolling summary that fit the limit
Rolling(existing, summary) ==
  LET newSummary == Append(existing, summary) IN
    IF Len(newSummary) > MaxRolling
      THEN SubSeq(newSummary, Len(newSummary) - MaxRolling + 1, Len(newSummary))
      ELSE newSummary

\* request r has left the client: late tells whether the conversation was
\* closed by then
ConvArrive(r, kind) ==
  /\ convReqs[r].kind = "none"
  /\ \A q \in ConvReqIds : q < r => convReqs[q].kind # "none"
  /\ convReqs' = [convReqs EXCEPT ![r] =
       [NoConvReq EXCEPT !.kind = kind, !.pc = "find",
                         !.late = (convStatus = "CLOSED")]]
  /\ UNCHANGED <<convStatus, convSummary, userSummary, streamVars, sbVars, clientVars>>

\* message route: findUnique has resolved; a conversation that is not ACTIVE
\* gets the error event and the stream is closed
MsgCheck(r) ==
  /\ convReqs[r].kind = "message"
  /\ convReqs[r].pc = "find"
  /\ convReqs' = [convReqs EXCEPT ![r] =
       IF convStatus # "ACTIVE"
         THEN [@ EXCEPT !.pc = "done", !.events = Append(@, "error")]
         ELSE [@ EXCEPT !.pc = "transcribe"]]
  /\ UNCHANGED <<convStatus, convSummary, userSummary, streamVars, sbVars, clientVars>>

\* message route: the transcription is there; the transcript event, then the
\* user's message is saved
MsgTranscribed(r) ==
  /\ convReqs[r].kind = "message"
  /\ convReqs[r].pc = "transcribe"
  /\ convReqs' = [convReqs EXCEPT ![r] =
       [@ EXCEPT !.pc = "respond", !.events = Append(@, "transcript"),
                 !.saved = @ + 1]]
  /\ UNCHANGED <<convStatus, convSummary, userSummary, streamVars, sbVars, clientVars>>

\* message route: the journalist's message is saved, then the complete event
MsgComplete(r) ==
  /\ convReqs[r].kind = "message"
  /\ convReqs[r].pc = "respond"
  /\ convReqs' = [convReqs EXCEPT ![r] =
       [@ EXCEPT !.pc = "done", !.events = Append(@, "complete"),
                 !.saved = @ + 1]]
  /\ UNCHANGED <<convStatus, convSummary, userSummary, streamVars, sbVars, clientVars>>

\* message route: a missing field, an unknown conversation, an empty
\* transcription or an exception: the error event
MsgFail(r) ==
  /\ convReqs[r].kind = "message"
  /\ convReqs[r].pc \in {"find", "transcribe", "respond"}
  /\ convReqs' = [convReqs EXCEPT ![r] =
       [@ EXCEPT !.pc = "done", !.events = Append(@, "error")]]
  /\ UNCHANGED <<convStatus, convSummary, userSummary, streamVars, sbVars, clientVars>>

\* a faulty variant of EndCheck: the status test is missing
EndCheckAnyStatus(r) ==
  /\ convReqs[r].kind = "end"
  /\ convReqs[r].pc = "find"
  /\ convReqs' = [convReqs EXCEPT ![r] =
       [@ EXCEPT !.pc = "summarise", !.snapshot = userSummary]]
  /\ UNCHANGED <<convStatus, convSummary, userSummary, streamVars, sbVars, clientVars>>

\* end route: findUnique has resolved (conversation.user.conversationSummary
\* is read here); a conversation that is not ACTIVE is answered with 400
EndCheck(r) ==
  /\ convReqs[r].kind = "end"
  /\ convReqs[r].pc = "find"
  /\ convReqs' = [convReqs EXCEPT ![r] =
       IF convStatus # "ACTIVE"
         THEN [@ EXCEPT !.pc = "done", !.response = "rejected"]
         ELSE [@ EXCEPT !.pc = "summarise", !.snapshot = userSummary]]
  /\ UNCHANGED <<convStatus, convSummary, userSummary, streamVars, sbVars, clientVars>>

\* end route: the summary has been generated; conversation.update sets the
\* status to CLOSED and stores the summary
EndClose(r) ==
  /\ convReqs[r].kind = "end"
  /\ convReqs[r].pc = "summarise"
  /\ convStatus' = "CLOSED"
  /\ convSummary' = r
  /\ convReqs' = [convReqs EXCEPT ![r].pc = "user"]
  /\ UNCHANGED <<userSummary, streamVars, sbVars, clientVars>>

\* end route: user.update stores the rolling summary built from the one read
\* by findUnique; the success response
EndUserUpdate(r) ==
  /\ convReqs[r].kind = "end"
  /\ convReqs[r].pc = "user"
  /\ userSummary' = Rolling(convReqs[r].snapshot, r)
  /\ convReqs' = [convReqs EXCEPT ![r] = [@ EXCEPT !.pc = "done", !.response = "ok"]]
  /\ UNCHANGED <<convStatus, convSummary, streamVars, sbVars, clientVars>>

\* end route: a missing id, an unknown conversation or an exception at an
\* await: an error response
EndFail(r) ==
  /\ convReqs[r].kind = "end"
  /\ convReqs[r].pc \in {"find", "summarise", "user"}
  /\ convReqs' = [convReqs EXCEPT ![r] = [@ EXCEPT !.pc = "done", !.response = "error"]]
  /\ UNCHANGED <<convStatus, convSummary, userSummary, streamVars, sbVars, clientVars>>

NextConv ==
  \/ \E r \in ConvReqIds : ConvArrive(r, "message")
  \/ \E r \in ConvReqIds : ConvArrive(r, "end")
  \/ \E r \in ConvReqIds : MsgCheck(r)
  \/ \E r \in ConvReqIds : MsgTranscribed(r)
  \/ \E r \in ConvReqIds : MsgComplete(r)
  \/ \E r \in ConvReqIds : MsgFail(r)
  \/ \E r \in ConvReqIds : EndCheck(r)
  \/ \E r \in ConvReqIds : EndClose(r)
  \/ \E r \in ConvReqIds : EndUserUpdate(r)
  \/ \E r \in ConvReqIds : EndFail(r)

\* a conversation just started, for a new or a returning user
InitConv ==
  /\ minSentenceLength = RouteMinSentenceLength
  /\ sbBuffer = <<>>
  /\ sbInput = <<>>
  /\ sbSentences = <<>>
  /\ sbLastCall = 0
  /\ sbFlushed = FALSE
  /\ sbFlushResult = <<>>
  /\ sbFlushes = 0
  /\ sbLastFlush = <<>>
  /\ InitClient
  /\ IdleStream
  /\ convStatus = "ACTIVE"
  /\ convSummary = 0
  /\ userSummary \in {<<>>, <<0>>, <<0, 0>>}
  /\ convReqs = [r \in ConvReqIds |-> NoConvReq]

SpecConv == InitConv /\ [][NextConv]_vars

\* the requests that left the client when the conversation was closed already
LateReqs == { r \in ConvReqIds : convReqs[r].kind # "none" /\ convReqs[r].late }

\* C38: a closed conversation stays closed; a message request that arrives
\* after the close gets nothing but an error event and saves no message; an
\* end request that arrives after the close is not answered with success, and
\* no step of such a request changes the conversation's or the user's summary
C38_ClosedStaysClosed ==
  /\ [][convStatus = "CLOSED" => convStatus' = "CLOSED"]_vars
  /\ [](\A r \in LateReqs :
          /\ convReqs[r].saved = 0
          /\ convReqs[r].events \in {<<>>, <<"error">>}
          /\ convReqs[r].pc = "done" =>
               IF convReqs[r].kind = "message"
                 THEN convReqs[r].events = <<"error">>
                 ELSE convReqs[r].response \in {"rejected", "error"})
  /\ [][(convSummary' # convSummary \/ userSummary' # userSummary) =>
          \E r \in ConvReqIds : convReqs'[r] # convReqs[r] /\ ~convReqs[r].late]_vars

\* C38 witness: the conversation was ended with success, then a message
\* request and an end request arrived and both have been answered
C38_Witness ==
  /\ convStatus = "CLOSED"
  /\ \E r \in ConvReqIds : convReqs[r].response = "ok"
  /\ \E r \in LateReqs : convReqs[r].kind = "message" /\ convReqs[r].pc = "done"
  /\ \E r \in LateReqs : convReqs[r].kind = "end" /\ convReqs[r].pc = "done"

====
